---- MODULE Spec2Model ----
(***************************************************************************)
(* Crawl coordination engine of simracer_scraper: the SQLite store and its *)
(* upserts and freshness queries (src/database.py), the shared rate        *)
(* limiter and the fetch/retry loop (src/utils/browser_manager.py,         *)
(* src/extractors/base.py) and the hierarchical walker                     *)
(* (src/orchestrator.py, src/cli.py).                                      *)
(***************************************************************************)
EXTENDS Integers, Sequences, FiniteSets, TLC

VARIABLES
    db,         \* the SQLite database: one field per table, plus connection state
    now,        \* the wall clock, in seconds since 1970-01-01T00:00:00 (naive local time)
    last_call,  \* the most recent Database call and what it returned
    mgr,        \* the BrowserManager object's fields
    thr,        \* per thread: position inside fetch_page / rate_limit
    obs,        \* what the network saw: the request attempts and gate passes
    progress,   \* Orchestrator.progress
    visits,     \* the scrape_* invocations of the latest orchestrator call, in order
    run,        \* the latest orchestrator call: its arguments and what held before it
    fetched     \* URLs the latest call handed to an extractor's fetch_page, in order

vars == <<db, now, last_call, mgr, thr, obs, progress, visits, run, fetched>>

-----------------------------------------------------------------------------
(* Values.  A Python value that may be None is a tuple: <<>> is None and   *)
(* <<v>> is the value v.                                                   *)

NULL == <<>>
Some(v) == <<v>>

\* dict.get(key): the value, or None when the key is absent
Get(data, f) == IF f \in DOMAIN data THEN data[f] ELSE NULL

\* dict.get(key, default)
GetOr(data, f, dflt) == IF f \in DOMAIN data THEN data[f] ELSE dflt

\* Python truthiness of an optional string / URL / timestamp string
EmptyStr == ""
EmptyUrl == <<"", 0>>
TruthyStr(x) == x # NULL /\ x # Some(EmptyStr)
TruthyUrl(x) == x # NULL /\ x # Some(EmptyUrl)

-----------------------------------------------------------------------------
(* Time.  A stored timestamp is a string; the model keeps its format and,  *)
(* for an ISO-8601 string, the instant it denotes.                         *)

SecondsPerDay == 86400
SecondsPerHour == 3600

\* the clock when the program starts: 20762 days after the epoch (2026-11-04)
StartDay == 20762
StartTime == StartDay * SecondsPerDay

\* datetime.isoformat() of the naive local datetime t seconds after the epoch
isoformat(t) == [fmt |-> "iso", t |-> t]

\* a string that is no ISO-8601 datetime, the empty string, and an ISO string
\* with a UTC offset (an aware datetime)
BadTimestamp == [fmt |-> "bad", t |-> 0]
EmptyTimestamp == [fmt |-> "empty", t |-> 0]
AwareTimestamp(t) == [fmt |-> "aware", t |-> t]

\* the literal "1970-01-01T00:00:00" the orchestrator writes on discovery
EpochSentinel == isoformat(0)

TruthyTs(x) == x # NULL /\ x[1].fmt # "empty"

\* datetime.fromisoformat(s): raises ValueError unless s is ISO-8601
fromisoformat(s) ==
    IF s.fmt \in {"iso", "aware"}
    THEN [ok |-> TRUE, aware |-> s.fmt = "aware", t |-> s.t]
    ELSE [ok |-> FALSE, aware |-> FALSE, t |-> 0]

-----------------------------------------------------------------------------
(* The database.  Tables are functions from the primary key to the row.    *)

leagues_optional == {"description"}
series_optional == {"description", "created_date", "num_seasons"}
seasons_optional == {"description"}
races_optional ==
    {"event_name", "date", "race_time", "practice_time", "track_id",
     "track_config_id", "track_name", "track_type", "track_length",
     "track_config_iracing_id", "planned_laps", "points_race", "off_week",
     "night_race", "playoff_race", "race_duration_minutes", "total_laps",
     "leaders", "lead_changes", "cautions", "caution_laps", "num_drivers",
     "weather_type", "cloud_conditions", "temperature_f", "humidity_pct",
     "fog_pct", "weather_wind_speed", "weather_wind_dir", "weather_wind_unit"}
teams_optional == {"url", "driver_count"}
drivers_optional ==
    {"team_id", "first_name", "last_name", "car_numbers", "primary_number",
     "club", "club_id", "irating", "safety_rating", "license_class"}
race_results_optional ==
    {"team", "finish_position", "starting_position", "car_number",
     "qualifying_time", "fastest_lap", "fastest_lap_number", "average_lap",
     "interval", "laps_completed", "laps_led", "incident_points",
     "race_points", "bonus_points", "penalty_points", "total_points",
     "fast_laps", "quality_passes", "closing_passes", "total_passes",
     "average_running_position", "irating", "status", "car_id"}

EmptyTable == [k \in {} |-> NULL]

\* the state after Database.connect() and initialize_schema() on a new file
EmptyDb ==
    [leagues |-> EmptyTable, series |-> EmptyTable, seasons |-> EmptyTable,
     races |-> EmptyTable, teams |-> EmptyTable, drivers |-> EmptyTable,
     race_results |-> EmptyTable,
     scrape_log |-> <<>>, schema_alerts |-> <<>>,
     races_seq |-> 0, race_results_seq |-> 0,
     last_insert_rowid |-> 0]

\* the row of a table with the key written
Put(tbl, k, row) == [x \in DOMAIN tbl \cup {k} |-> IF x = k THEN row ELSE tbl[x]]

\* the values the caller's dict gives for a list of columns
Columns(data, fields) == [f \in fields |-> Get(data, f)]

\* a UNIQUE url column: another row already holds the url
UrlTaken(tbl, k, url) == \E x \in DOMAIN tbl : x # k /\ tbl[x].url = url

\* a connection that does not enforce foreign keys
ForeignKeysOff(tbl, k) == FALSE

\* FOREIGN KEY (col) REFERENCES tbl(key) under PRAGMA foreign_keys = ON: no
\* row of the parent table has the key
NoParent(tbl, k) == k \notin DOMAIN tbl

Raise(d, e) == [ok |-> FALSE, err |-> e, db |-> d, ret |-> NULL]
Return(d, r) == [ok |-> TRUE, err |-> "", db |-> d, ret |-> r]

\* created_at is written by the INSERT only; the UPDATE branch leaves it
CreatedAt(tbl, k) == IF k \in DOMAIN tbl THEN tbl[k].created_at ELSE now

\* sqlite3_last_insert_rowid(): moves only when a row is inserted
RowidAfter(d, tbl, k, rowid) == IF k \in DOMAIN tbl THEN d.last_insert_rowid ELSE rowid

-----------------------------------------------------------------------------
(* Database.upsert_*: INSERT ... ON CONFLICT(key) DO UPDATE SET col =       *)
(* excluded.col for every column, then commit.                             *)

upsert_league(d, league_id, data) ==
    LET name == Get(data, "name")
        url == Get(data, "url")
        scraped_at == Get(data, "scraped_at")
        row == [league_id |-> league_id, name |-> name, url |-> url,
                scraped_at |-> scraped_at,
                created_at |-> CreatedAt(d.leagues, league_id), updated_at |-> now]
               @@ Columns(data, leagues_optional)
    IN  IF ~TruthyStr(name) \/ ~TruthyUrl(url) \/ ~TruthyTs(scraped_at)
        THEN Raise(d, "ValueError")
        ELSE IF UrlTaken(d.leagues, league_id, url)
        THEN Raise(d, "IntegrityError")
        ELSE Return([d EXCEPT !.leagues = Put(@, league_id, row),
                              !.last_insert_rowid =
                                  RowidAfter(d, d.leagues, league_id, league_id)],
                    league_id)

upsert_series(d, series_id, league_id, data) ==
    LET name == Get(data, "name")
        url == Get(data, "url")
        scraped_at == Get(data, "scraped_at")
        row == [series_id |-> series_id, league_id |-> league_id, name |-> name,
                url |-> url, scraped_at |-> scraped_at,
                created_at |-> CreatedAt(d.series, series_id), updated_at |-> now]
               @@ Columns(data, series_optional)
    IN  IF ~TruthyStr(name) \/ ~TruthyUrl(url) \/ ~TruthyTs(scraped_at)
        THEN Raise(d, "ValueError")
        ELSE IF NoParent(d.leagues, league_id) \/ UrlTaken(d.series, series_id, url)
        THEN Raise(d, "IntegrityError")
        ELSE Return([d EXCEPT !.series = Put(@, series_id, row),
                              !.last_insert_rowid =
                                  RowidAfter(d, d.series, series_id, series_id)],
                    series_id)

upsert_season(d, season_id, series_id, data) ==
    LET name == Get(data, "name")
        url == Get(data, "url")
        scraped_at == Get(data, "scraped_at")
        row == [season_id |-> season_id, series_id |-> series_id, name |-> name,
                url |-> url, scraped_at |-> scraped_at,
                created_at |-> CreatedAt(d.seasons, season_id), updated_at |-> now]
               @@ Columns(data, seasons_optional)
    IN  IF ~TruthyStr(name) \/ ~TruthyUrl(url) \/ ~TruthyTs(scraped_at)
        THEN Raise(d, "ValueError")
        ELSE IF NoParent(d.series, series_id) \/ UrlTaken(d.seasons, season_id, url)
        THEN Raise(d, "IntegrityError")
        ELSE Return([d EXCEPT !.seasons = Put(@, season_id, row),
                              !.last_insert_rowid =
                                  RowidAfter(d, d.seasons, season_id, season_id)],
                    season_id)

\* the race_id of the row with this schedule_id (UNIQUE), if there is one
RaceRows(d, schedule_id) == {k \in DOMAIN d.races : d.races[k].schedule_id = schedule_id}

upsert_race(d, schedule_id, season_id, data) ==
    LET url == Get(data, "url")
        scraped_at == Get(data, "scraped_at")
        race_number == Get(data, "race_number")
        is_complete == GetOr(data, "is_complete", Some(FALSE))
        existing == RaceRows(d, schedule_id)
        race_id == IF existing # {} THEN CHOOSE k \in existing : TRUE
                   ELSE d.races_seq + 1
        row == [race_id |-> race_id, schedule_id |-> schedule_id,
                season_id |-> season_id, race_number |-> race_number,
                url |-> url, is_complete |-> is_complete, scraped_at |-> scraped_at,
                created_at |-> CreatedAt(d.races, race_id), updated_at |-> now]
               @@ Columns(data, races_optional)
        after == [d EXCEPT !.races = Put(@, race_id, row),
                           !.races_seq = @ + 1,
                           !.last_insert_rowid =
                               IF existing = {} THEN race_id ELSE @]
    IN  IF ~TruthyUrl(url) \/ ~TruthyTs(scraped_at) \/ race_number = NULL
        THEN Raise(d, "ValueError")
        ELSE IF NoParent(d.seasons, season_id) \/ UrlTaken(d.races, race_id, url)
        THEN Raise(d, "IntegrityError")
        \* cursor.lastrowid: the connection's last inserted rowid
        ELSE Return(after, after.last_insert_rowid)

upsert_team(d, team_id, league_id, data) ==
    LET name == Get(data, "name")
        scraped_at == Get(data, "scraped_at")
        row == [team_id |-> team_id, league_id |-> league_id, name |-> name,
                scraped_at |-> scraped_at,
                created_at |-> CreatedAt(d.teams, team_id), updated_at |-> now]
               @@ Columns(data, teams_optional)
    IN  IF ~TruthyStr(name) \/ ~TruthyTs(scraped_at)
        THEN Raise(d, "ValueError")
        ELSE IF NoParent(d.leagues, league_id)
        THEN Raise(d, "IntegrityError")
        ELSE Return([d EXCEPT !.teams = Put(@, team_id, row),
                              !.last_insert_rowid =
                                  RowidAfter(d, d.teams, team_id, team_id)],
                    team_id)

upsert_driver(d, driver_id, league_id, data) ==
    LET name == Get(data, "name")
        url == Get(data, "url")
        scraped_at == Get(data, "scraped_at")
        team_id == Get(data, "team_id")
        row == [driver_id |-> driver_id, league_id |-> league_id, name |-> name,
                url |-> url, scraped_at |-> scraped_at,
                created_at |-> CreatedAt(d.drivers, driver_id), updated_at |-> now]
               @@ Columns(data, drivers_optional)
    IN  IF ~TruthyStr(name) \/ ~TruthyUrl(url) \/ ~TruthyTs(scraped_at)
        THEN Raise(d, "ValueError")
        ELSE IF \/ NoParent(d.leagues, league_id)
                \/ (team_id # NULL /\ NoParent(d.teams, team_id[1]))
                \/ UrlTaken(d.drivers, driver_id, url)
        THEN Raise(d, "IntegrityError")
        ELSE Return([d EXCEPT !.drivers = Put(@, driver_id, row),
                              !.last_insert_rowid =
                                  RowidAfter(d, d.drivers, driver_id, driver_id)],
                    driver_id)

\* the result_id of the row of this (race_id, driver_id) pair (UNIQUE)
ResultRows(d, race_id, driver_id) ==
    {k \in DOMAIN d.race_results :
        d.race_results[k].race_id = race_id /\ d.race_results[k].driver_id = driver_id}

upsert_race_result(d, race_id, driver_id, data) ==
    LET existing == ResultRows(d, race_id, driver_id)
        result_id == IF existing # {} THEN CHOOSE k \in existing : TRUE
                     ELSE d.race_results_seq + 1
        row == [result_id |-> result_id, race_id |-> race_id, driver_id |-> driver_id,
                created_at |-> CreatedAt(d.race_results, result_id), updated_at |-> now]
               @@ Columns(data, race_results_optional)
        after == [d EXCEPT !.race_results = Put(@, result_id, row),
                           !.race_results_seq = @ + 1,
                           !.last_insert_rowid =
                               IF existing = {} THEN result_id ELSE @]
    IN  IF NoParent(d.races, race_id) \/ NoParent(d.drivers, driver_id)
        THEN Raise(d, "IntegrityError")
        ELSE Return(after, after.last_insert_rowid)

\* Database.get_*: dict(row), or None
get_league(d, league_id) ==
    IF league_id \in DOMAIN d.leagues THEN Some(d.leagues[league_id]) ELSE NULL
get_series(d, series_id) ==
    IF series_id \in DOMAIN d.series THEN Some(d.series[series_id]) ELSE NULL
get_season(d, season_id) ==
    IF season_id \in DOMAIN d.seasons THEN Some(d.seasons[season_id]) ELSE NULL
get_race(d, schedule_id) ==
    IF RaceRows(d, schedule_id) # {}
    THEN Some(d.races[CHOOSE k \in RaceRows(d, schedule_id) : TRUE]) ELSE NULL
get_team(d, team_id) ==
    IF team_id \in DOMAIN d.teams THEN Some(d.teams[team_id]) ELSE NULL
get_driver(d, driver_id) ==
    IF driver_id \in DOMAIN d.drivers THEN Some(d.drivers[driver_id]) ELSE NULL

\* Database.is_race_complete: bool(row and row[0])
is_race_complete(d, schedule_id) ==
    LET r == get_race(d, schedule_id)
    IN  r # NULL /\ r[1].is_complete = Some(TRUE)

-----------------------------------------------------------------------------
(* Database.is_url_cached and Database.log_scrape                          *)

valid_types == {"league", "series", "season", "race", "driver", "team"}
valid_statuses == {"success", "failed", "skipped"}

\* table_map[entity_type]
table_map(d, entity_type) ==
    CASE entity_type = "league" -> d.leagues
      [] entity_type = "series" -> d.series
      [] entity_type = "season" -> d.seasons
      [] entity_type = "race" -> d.races
      [] entity_type = "driver" -> d.drivers
      [] entity_type = "team" -> d.teams

\* SELECT scraped_at FROM table WHERE url = ?  -- fetchone()
RowsWithUrl(tbl, url) == {k \in DOMAIN tbl : tbl[k].url = Some(url)}

\* inclusive comparison: a row aged exactly max_age_days counts as fresh
AgeIsFreshInclusive(age_seconds, max_age_days) ==
    age_seconds <= max_age_days * SecondsPerDay

\* age_days < max_age_days, where age_days = age in seconds / 86400
AgeIsFresh(age_seconds, max_age_days) == age_seconds < max_age_days * SecondsPerDay

\* the freshness test on a stored scraped_at string
IsFreshTimestamp(scraped_at, max_age_days) ==
    IF ~TruthyTs(scraped_at) THEN FALSE
    ELSE LET scraped_time == fromisoformat(scraped_at[1])
         IN  IF ~scraped_time.ok THEN FALSE           \* ValueError
             ELSE IF scraped_time.aware THEN FALSE     \* TypeError: naive - aware
             ELSE AgeIsFresh(now - scraped_time.t, max_age_days[1])

is_url_cached(d, url, entity_type, max_age_days) ==
    IF entity_type \notin valid_types THEN Raise(d, "ValueError")
    ELSE LET tbl == table_map(d, entity_type)
             rows == RowsWithUrl(tbl, url)
         IN  IF rows = {} THEN Return(d, FALSE)
             ELSE IF max_age_days = NULL THEN Return(d, TRUE)
             ELSE Return(d, IsFreshTimestamp(tbl[CHOOSE k \in rows : TRUE].scraped_at,
                                             max_age_days))

\* the entity types whose table has a status column: CREATE TABLE seasons
\* and CREATE TABLE races declare none
status_columns == {}

\* age_hours > validity_hours, where age_hours = age in seconds / 3600
AgeIsStale(age_seconds, validity_hours) == age_seconds > validity_hours * SecondsPerHour

\* should_scrape(entity_type, entity_id, validity_hours) -> (bool, reason)
should_scrape(d, entity_type, entity_id, validity_hours) ==
    IF entity_type \notin valid_types THEN Raise(d, "ValueError")
    ELSE LET tbl == table_map(d, entity_type)
             has_status == entity_type \in {"race", "season"}
             rows == IF entity_type = "race" THEN RaceRows(d, entity_id)
                     ELSE {k \in DOMAIN tbl : k = entity_id}
             row == tbl[CHOOSE k \in rows : TRUE]
             status == IF has_status THEN Get(row, "status") ELSE NULL
             scraped_time == fromisoformat(row.scraped_at[1])
         IN  \* SELECT scraped_at, status FROM table: no such column
             IF has_status /\ entity_type \notin status_columns
             THEN Raise(d, "OperationalError")
             ELSE IF rows = {} THEN Return(d, <<TRUE, "not_in_cache">>)
             ELSE IF validity_hours = NULL
             THEN Return(d, <<FALSE, "cache_valid_indefinitely">>)
             ELSE IF row.scraped_at = NULL \/ ~scraped_time.ok \/ scraped_time.aware
             THEN Return(d, <<TRUE, "invalid_timestamp">>)
             ELSE IF AgeIsStale(now - scraped_time.t, validity_hours[1])
             THEN Return(d, <<TRUE, "cache_stale">>)
             ELSE IF status \in {Some("upcoming"), Some("ongoing"), Some("active")}
             THEN Return(d, <<TRUE, "status_needs_refresh">>)
             ELSE IF status = Some("completed")
             THEN Return(d, <<FALSE, "status_completed_stable">>)
             ELSE Return(d, <<FALSE, "cache_fresh">>)

log_scrape(d, entity_type, entity_url, status, error_msg, duration_ms) ==
    IF ~TruthyUrl(Some(entity_url)) \/ status = EmptyStr THEN Raise(d, "ValueError")
    ELSE IF entity_type \notin valid_types THEN Raise(d, "ValueError")
    ELSE IF status \notin valid_statuses THEN Raise(d, "ValueError")
    ELSE LET row == [log_id |-> Len(d.scrape_log) + 1, entity_type |-> entity_type,
                     entity_id |-> NULL, entity_url |-> entity_url, status |-> status,
                     error_message |-> error_msg, duration_ms |-> duration_ms,
                     timestamp |-> now]
         IN  Return([d EXCEPT !.scrape_log = Append(@, row),
                              !.last_insert_rowid = row.log_id],
                    row.log_id)

-----------------------------------------------------------------------------
(* Initial values of the objects                                           *)

Threads == {"t1", "t2"}

\* BrowserManager.__init__
NewBrowserManager ==
    [_playwright |-> NULL, _browser |-> NULL, _last_request_time |-> 0,
     _lock |-> NULL, _interrupted |-> FALSE, launches |-> 0, closed_with |-> NULL,
     browser_closes |-> 0, stops |-> 0]

\* a thread outside fetch_page
IdleThread ==
    [pc |-> "idle", mode |-> "static", attempt |-> 0, wake |-> 0, gated |-> FALSE,
     browser |-> NULL]

\* what an observer of the gate has seen: the last two returns of
\* rate_limit() and the last two request attempts
NoObservations ==
    [passes |-> 0, last_pass |-> 0, prev_pass |-> 0, first_slept |-> FALSE,
     attempts |-> 0, last_attempt |-> 0, prev_attempt |-> 0, attempt_gated |-> TRUE]

\* Orchestrator.__init__ / reset_progress
NewProgress ==
    [leagues_scraped |-> 0, series_scraped |-> 0, seasons_scraped |-> 0,
     races_scraped |-> 0, errors |-> <<>>, skipped_cached |-> 0]

NoRun ==
    [op |-> "none", depth |-> "", cache_max_age_days |-> NULL, force |-> FALSE,
     has_results |-> TRUE, race_done |-> FALSE, season_fresh |-> FALSE,
     skipped_cached |-> 0, at |-> 0, raised |-> "", n |-> 0,
     filters |-> [series_ids |-> NULL, season_year |-> NULL, season_limit |-> NULL],
     series |-> << >>, seasons |-> << >>, races |-> << >>, failing |-> {}, drifted |-> {},
     invalid |-> {}, seen |-> << >>, interrupt |-> NULL, blank |-> {}, exit_code |-> NULL,
     close_interrupted |-> NULL, unnamed |-> {}]

NoCall ==
    [op |-> "none", kind |-> "", key |-> 0, data |-> NULL, before |-> NULL,
     ok |-> TRUE, err |-> "", ret |-> NULL, at |-> 0, n |-> 0]

GateIdle == mgr = NewBrowserManager /\ thr = [t \in Threads |-> IdleThread]
            /\ obs = NoObservations
OrchestratorIdle == progress = NewProgress /\ visits = <<>> /\ run = NoRun
                    /\ fetched = <<>>

gate_vars == <<mgr, thr, obs>>
orch_vars == <<progress, visits, run, fetched>>

-----------------------------------------------------------------------------
(* SpecStore: the Database API called directly, in any order.              *)

MaxCalls == 3

UrlOf(kind, id) == <<kind, id>>

\* the dict a caller passes: the required keys, then the optional columns
\* either all omitted, all None, or all set
OptionalChoices(fields) ==
    { [f \in {} |-> NULL],
      [f \in fields |-> NULL],
      [f \in fields |-> IF f = "team_id" THEN Some(1) ELSE Some("a")] }

RequiredChoices(kind, id) ==
    { [name |-> Some("N"), url |-> Some(UrlOf(kind, id)),
       scraped_at |-> Some(isoformat(now)), race_number |-> Some(1)],
      [url |-> Some(UrlOf(kind, id)), scraped_at |-> Some(isoformat(now))] }

Inputs(kind, id, fields) ==
    { req @@ opt : req \in RequiredChoices(kind, id), opt \in OptionalChoices(fields) }

CallRecord(op, kind, key, data, before, r) ==
    [op |-> op, kind |-> kind, key |-> key, data |-> data, before |-> before,
     ok |-> r.ok, err |-> r.err, ret |-> r.ret, at |-> now, n |-> last_call.n + 1]

\* a store that already holds one row of every parent kind, reached by
\* these calls on the empty store
SeededDb ==
    LET t == Some(isoformat(StartTime))
        d1 == upsert_league(EmptyDb, 1,
                  [name |-> Some("N"), url |-> Some(UrlOf("league", 1)), scraped_at |-> t]).db
        d2 == upsert_series(d1, 1, 1,
                  [name |-> Some("N"), url |-> Some(UrlOf("series", 1)), scraped_at |-> t]).db
        d3 == upsert_season(d2, 1, 1,
                  [name |-> Some("N"), url |-> Some(UrlOf("season", 1)), scraped_at |-> t]).db
        d4 == upsert_race(d3, 1, 1,
                  [url |-> Some(UrlOf("race", 1)), scraped_at |-> t,
                   race_number |-> Some(1)]).db
        d5 == upsert_driver(d4, 1, 1,
                  [name |-> Some("N"), url |-> Some(UrlOf("driver", 1)), scraped_at |-> t]).db
        d6 == upsert_team(d5, 1, 1, [name |-> Some("N"), scraped_at |-> t]).db
    IN  d6

InitStore ==
    /\ now = StartTime
    /\ db \in {EmptyDb, SeededDb}
    /\ last_call = NoCall
    /\ GateIdle /\ OrchestratorIdle

StoreFrame == last_call.n < MaxCalls /\ UNCHANGED <<now, gate_vars, orch_vars>>

CallUpsertLeague ==
    /\ StoreFrame
    /\ \E data \in Inputs("league", 1, leagues_optional) :
        LET r == upsert_league(db, 1, data)
        IN  /\ db' = r.db
            /\ last_call' = CallRecord("upsert", "league", 1, data, get_league(db, 1), r)

CallUpsertSeries ==
    /\ StoreFrame
    /\ \E data \in Inputs("series", 1, series_optional) :
        LET r == upsert_series(db, 1, 1, data)
        IN  /\ db' = r.db
            /\ last_call' = CallRecord("upsert", "series", 1, data, get_series(db, 1), r)

CallUpsertSeason ==
    /\ StoreFrame
    /\ \E data \in Inputs("season", 1, seasons_optional) :
        LET r == upsert_season(db, 1, 1, data)
        IN  /\ db' = r.db
            /\ last_call' = CallRecord("upsert", "season", 1, data, get_season(db, 1), r)

CallUpsertRace ==
    /\ StoreFrame
    /\ \E data \in Inputs("race", 1, races_optional), complete \in {NULL, Some(TRUE)} :
        LET args == IF complete = NULL THEN data
                    ELSE [is_complete |-> complete] @@ data
            r == upsert_race(db, 1, 1, args)
        IN  /\ db' = r.db
            /\ last_call' = CallRecord("upsert", "race", 1, args, get_race(db, 1), r)

CallUpsertTeam ==
    /\ StoreFrame
    /\ \E data \in Inputs("team", 1, teams_optional) :
        LET r == upsert_team(db, 1, 1, data)
        IN  /\ db' = r.db
            /\ last_call' = CallRecord("upsert", "team", 1, data, get_team(db, 1), r)

CallUpsertDriver ==
    /\ StoreFrame
    /\ \E data \in Inputs("driver", 1, drivers_optional) :
        LET r == upsert_driver(db, 1, 1, data)
        IN  /\ db' = r.db
            /\ last_call' = CallRecord("upsert", "driver", 1, data, get_driver(db, 1), r)

\* the stored result of race 1 and driver 1, if any
get_race_result(d, race_id, driver_id) ==
    IF ResultRows(d, race_id, driver_id) # {}
    THEN Some(d.race_results[CHOOSE k \in ResultRows(d, race_id, driver_id) : TRUE])
    ELSE NULL

CallUpsertRaceResult ==
    /\ StoreFrame
    /\ \E data \in OptionalChoices(race_results_optional) :
        LET r == upsert_race_result(db, 1, 1, data)
        IN  /\ db' = r.db
            /\ last_call' = CallRecord("upsert", "race_result", 1, data,
                                       get_race_result(db, 1, 1), r)

\* log_scrape("race", url, status): a row inserted into scrape_log on the
\* same connection
CallLogScrape ==
    /\ StoreFrame
    /\ \E status \in {"success", "failed"} :
        LET r == log_scrape(db, "race", UrlOf("race", 1), status, NULL, 0)
        IN  /\ db' = r.db
            /\ last_call' = CallRecord("log_scrape", "scrape_log", 1, NULL, NULL, r)

ValidityHours == {NULL, Some(0), Some(24)}

\* should_scrape(kind, 1, validity_hours)
CallShouldScrape ==
    /\ StoreFrame
    /\ \E kind \in {"league", "series", "season", "race"}, validity_hours \in ValidityHours :
        LET r == should_scrape(db, kind, 1, validity_hours)
        IN  /\ db' = r.db
            /\ last_call' = CallRecord("should_scrape", kind, 1,
                                       [validity_hours |-> validity_hours],
                                       Some(table_map(db, kind)), r)

NextStore ==
    \/ CallUpsertLeague
    \/ CallUpsertSeries
    \/ CallUpsertSeason
    \/ CallUpsertRace
    \/ CallUpsertTeam
    \/ CallUpsertDriver
    \/ CallUpsertRaceResult
    \/ CallLogScrape
    \/ CallShouldScrape

SpecStore == InitStore /\ [][NextStore]_vars

\* get_E(id) for the entity kind of the last call
StoredRow(kind) ==
    CASE kind = "league" -> get_league(db, 1)
      [] kind = "series" -> get_series(db, 1)
      [] kind = "season" -> get_season(db, 1)
      [] kind = "race" -> get_race(db, 1)
      [] kind = "team" -> get_team(db, 1)
      [] kind = "driver" -> get_driver(db, 1)
      [] kind = "race_result" -> get_race_result(db, 1, 1)

OptionalOf(kind) ==
    CASE kind = "league" -> leagues_optional
      [] kind = "series" -> series_optional
      [] kind = "season" -> seasons_optional
      [] kind = "race" -> races_optional
      [] kind = "team" -> teams_optional
      [] kind = "driver" -> drivers_optional
      [] kind = "race_result" -> race_results_optional

\* C1: after upsert_E(id, attrs) and then upsert_E(id, attrs') where attrs'
\* omits an optional field or leaves it None, get_E(id) still returns the
\* non-null value the first upsert stored in that field (merge, not replace).
C1_UpsertMergesOptionalFields ==
    (last_call.op = "upsert" /\ last_call.ok /\ last_call.before # NULL) =>
        \A f \in OptionalOf(last_call.kind) :
            (last_call.before[1][f] # NULL /\ Get(last_call.data, f) = NULL) =>
                StoredRow(last_call.kind)[1][f] = last_call.before[1][f]

-----------------------------------------------------------------------------
(* SpecCache: rows written with chosen last-scraped timestamps, the clock  *)
(* moving, and is_url_cached queried.                                      *)

DefaultMaxAgeDays == 7
HugeMaxAgeDays == 24000
MaxElapsedDays == 2

MaxAges == {NULL, Some(0), Some(1), Some(DefaultMaxAgeDays), Some(HugeMaxAgeDays)}

\* the last-scraped values a caller of upsert_E can store
Timestamps ==
    { isoformat(now), isoformat(now - SecondsPerHour), isoformat(now - SecondsPerDay),
      isoformat(now - DefaultMaxAgeDays * SecondsPerDay), isoformat(now + SecondsPerHour),
      EpochSentinel, BadTimestamp, EmptyTimestamp, AwareTimestamp(now) }

CachedKinds == {"league", "series"}

InitCache ==
    /\ now = StartTime
    /\ db = EmptyDb
    /\ last_call = NoCall
    /\ GateIdle /\ OrchestratorIdle

CacheWriteLeague ==
    /\ UNCHANGED <<now, gate_vars, orch_vars>>
    /\ \E ts \in Timestamps :
        LET data == [name |-> Some("N"), url |-> Some(UrlOf("league", 1)),
                     scraped_at |-> Some(ts)]
            r == upsert_league(db, 1, data)
        IN  /\ db' = r.db
            /\ last_call' = [NoCall EXCEPT !.op = "upsert", !.kind = "league", !.key = 1,
                                            !.ok = r.ok, !.err = r.err]

\* time.time() / datetime.now() advancing
Tick ==
    /\ now + SecondsPerDay <= StartTime + MaxElapsedDays * SecondsPerDay
    /\ now' = now + SecondsPerDay
    /\ UNCHANGED <<db, last_call, gate_vars, orch_vars>>

CallIsUrlCached ==
    /\ UNCHANGED <<now, gate_vars, orch_vars>>
    /\ \E kind \in CachedKinds \cup {"results"}, src \in CachedKinds, max_age_days \in MaxAges :
        LET url == UrlOf(src, 1)
            r == is_url_cached(db, url, kind, max_age_days)
        IN  /\ db' = r.db
            /\ last_call' = [op |-> "is_url_cached", kind |-> kind, key |-> 1,
                             data |-> [url |-> url, max_age_days |-> max_age_days],
                             before |-> NULL, ok |-> r.ok, err |-> r.err, ret |-> r.ret,
                             at |-> now, n |-> 0]

NextCache ==
    \/ CacheWriteLeague
    \/ Tick
    \/ CallIsUrlCached

SpecCache == InitCache /\ [][NextCache]_vars

\* the last call was an is_url_cached(url, kind, max_age_days) that returned
Queried == last_call.op = "is_url_cached" /\ last_call.ok

\* the stored rows of the queried kind that carry the queried URL
QueriedRows ==
    LET tbl == table_map(db, last_call.kind)
    IN  {tbl[k] : k \in {x \in DOMAIN tbl : tbl[x].url = Some(last_call.data.url)}}

\* C5: a row whose last-scraped timestamp is the epoch sentinel is not
\* cached for any finite max_age_days, however large.
C5_SentinelNeverCached ==
    (Queried /\ last_call.data.max_age_days # NULL
        /\ \E row \in QueriedRows : row.scraped_at = Some(EpochSentinel))
    => last_call.ret = FALSE

\* C6: is_url_cached(url, kind, 0) is false for every stored row, also one
\* whose last-scraped timestamp equals or is later than the current time.
C6_ZeroMaxAgeNeverCached ==
    (Queried /\ last_call.data.max_age_days = Some(0)) => last_call.ret = FALSE

\* C7: is_url_cached(url, kind, max_age_days) is true exactly when a row of
\* that kind with that URL exists and either max_age_days is None or the
\* row's last-scraped timestamp parses and is strictly newer than
\* now - max_age_days; exact age, unparseable or empty timestamp and a
\* missing row give false.
C7_IsUrlCachedIff ==
    Queried =>
        (last_call.ret = TRUE <=>
            \E row \in QueriedRows :
                \/ last_call.data.max_age_days = NULL
                \/ /\ row.scraped_at # NULL
                   /\ row.scraped_at[1].fmt = "iso"
                   /\ row.scraped_at[1].t >
                        last_call.at - last_call.data.max_age_days[1] * SecondsPerDay)

\* a query of a row aged exactly max_age_days answered false
C7_Witness_ExactAge ==
    /\ Queried
    /\ last_call.data.max_age_days = Some(1)
    /\ \E row \in QueriedRows :
        row.scraped_at = Some(isoformat(last_call.at - SecondsPerDay))
    /\ last_call.ret = FALSE

-----------------------------------------------------------------------------
(* SpecGate: threads fetching pages through one shared BrowserManager.     *)
(* Statements take no time; time passes while a thread sleeps, waits for   *)
(* the lock or is outside fetch_page.                                      *)

MinDelay == 2
MaxDelay == 4
backoff_factor == 2
max_retries == 1
MaxGateSeconds == 6
MaxSeen == 2

Modes == {"static", "rendered"}

\* the observer's counters saturate
Seen(n) == IF n < MaxSeen THEN n + 1 ELSE MaxSeen

\* a sleep that ignores the time still owed
NoSleep(delay, elapsed) == 0

\* sleep_time = delay - elapsed
sleep_time(delay, elapsed) == delay - elapsed

\* a retry issued at once
NoBackoff(attempt) == 0

\* delay = (backoff_factor ** attempt) * backoff_factor
backoff_delay(attempt) == (backoff_factor ^ attempt) * backoff_factor

InitGate ==
    /\ now = StartTime
    /\ db = EmptyDb
    /\ last_call = NoCall
    /\ GateIdle /\ OrchestratorIdle

gate_frame == UNCHANGED <<db, last_call, orch_vars>>

\* fetch_page(url): _fetch_static or _fetch_with_browser, up to the call
\* of self._rate_limit()
fetch_page(t) ==
    /\ thr[t].pc = "idle"
    /\ \E mode \in Modes :
        thr' = [thr EXCEPT ![t] = [pc |-> "lock", mode |-> mode, attempt |-> 0,
                                   wake |-> 0, gated |-> FALSE, browser |-> NULL]]
    /\ UNCHANGED <<now, mgr, obs>>
    /\ gate_frame

\* the end of rate_limit(): _last_request_time = time.time(), the lock
\* released, the call returned to the fetch path
rate_limit_exit(t, slept) ==
    /\ mgr' = [mgr EXCEPT !._last_request_time = now, !._lock = NULL]
    /\ thr' = [thr EXCEPT ![t].pc = IF thr[t].mode = "rendered" THEN "browser" ELSE "request",
                          ![t].gated = TRUE]
    /\ obs' = [obs EXCEPT !.passes = Seen(obs.passes),
                          !.prev_pass = obs.last_pass,
                          !.last_pass = now,
                          !.first_slept = IF obs.passes = 0 THEN slept ELSE obs.first_slept]

\* rate_limit(): the lock taken, the delay drawn, elapsed computed
rate_limit(t) ==
    /\ thr[t].pc = "lock"
    /\ mgr._lock = NULL
    /\ \E delay \in MinDelay..MaxDelay :
        LET elapsed == now - mgr._last_request_time
        IN  IF elapsed < delay
            THEN /\ mgr' = [mgr EXCEPT !._lock = Some(t)]
                 /\ thr' = [thr EXCEPT ![t].pc = "sleep",
                                       ![t].wake = now + sleep_time(delay, elapsed)]
                 /\ UNCHANGED obs
            ELSE rate_limit_exit(t, FALSE)
    /\ UNCHANGED now
    /\ gate_frame

\* time.sleep(sleep_time) over, inside the lock
rate_limit_wake(t) ==
    /\ thr[t].pc = "sleep"
    /\ now >= thr[t].wake
    /\ rate_limit_exit(t, TRUE)
    /\ UNCHANGED now
    /\ gate_frame

\* a browser launched at every call
AlwaysLaunch(m) == TRUE

\* if not self._browser
NeedsLaunch(m) == m._browser = NULL

\* what chromium.launch() does: returns a browser, or raises after
\* sync_playwright().start() has returned
LaunchOutcomes == {"ok", "launch_fails"}

\* the body of get_browser() under the lock.  The browser instance is named
\* by the number of its launch.
GetBrowser(m, launch) ==
    IF ~NeedsLaunch(m) THEN [mgr |-> m, ok |-> TRUE, ret |-> m._browser]
    ELSE LET started == [m EXCEPT !._playwright = Some("playwright")]
         IN  IF launch = "launch_fails" THEN [mgr |-> started, ok |-> FALSE, ret |-> NULL]
             ELSE [mgr |-> [started EXCEPT !._browser = Some(m.launches + 1),
                                           !.launches = m.launches + 1],
                   ok |-> TRUE, ret |-> Some(m.launches + 1)]

\* BrowserManager.get_browser(), called by _fetch_with_browser before its
\* retry loop: an exception of the launch leaves fetch_page at once
get_browser_launching(t, outcomes) ==
    /\ thr[t].pc = "browser"
    /\ mgr._lock = NULL
    /\ \E launch \in outcomes :
           LET r == GetBrowser(mgr, launch)
           IN  /\ mgr' = r.mgr
               /\ thr' = [thr EXCEPT ![t].pc = IF r.ok THEN "request" ELSE "raised",
                                     ![t].browser = r.ret]
    /\ UNCHANGED <<now, obs>>
    /\ gate_frame

\* get_browser() where the launch succeeds
get_browser(t) ==
    /\ thr[t].pc = "browser"
    /\ get_browser_launching(t, {"ok"})

\* one pass of the while loop: requests.get / page.goto, then the return of
\* the parsed document, or the except branch: attempt counts the failed
\* passes, and the last failure is raised
request_attempt(t) ==
    /\ thr[t].pc = "request"
    /\ obs' = [obs EXCEPT !.attempts = Seen(obs.attempts),
                          !.prev_attempt = obs.last_attempt,
                          !.last_attempt = now,
                          !.attempt_gated = thr[t].gated]
    /\ \E ok \in BOOLEAN :
        LET attempt == thr[t].attempt + 1
        IN  thr' = [thr EXCEPT ![t] =
                IF ok THEN [thr[t] EXCEPT !.pc = "returned"]
                ELSE IF attempt <= max_retries
                THEN [thr[t] EXCEPT !.pc = "backoff", !.attempt = attempt, !.gated = FALSE,
                                    !.wake = now + backoff_delay(attempt)]
                ELSE [thr[t] EXCEPT !.pc = "raised", !.attempt = attempt]]
    /\ UNCHANGED <<now, mgr>>
    /\ gate_frame

\* fetch_page is left: with BeautifulSoup(...) returned, or with the
\* exception of the last pass raised
fetch_page_exit(t) ==
    /\ thr[t].pc \in {"returned", "raised"}
    /\ thr' = [thr EXCEPT ![t] = IdleThread]
    /\ UNCHANGED <<now, mgr, obs>>
    /\ gate_frame

\* time.sleep(delay) of the back-off over: the loop's next pass
backoff_wake(t) ==
    /\ thr[t].pc = "backoff"
    /\ now >= thr[t].wake
    /\ thr' = [thr EXCEPT ![t].pc = "request"]
    /\ UNCHANGED <<now, mgr, obs>>
    /\ gate_frame

\* the clock moves; a thread that is about to issue its request or to leave
\* fetch_page does so before it does
GateTick ==
    /\ now < StartTime + MaxGateSeconds
    /\ \A t \in Threads : thr[t].pc \notin {"request", "returned", "raised"}
    /\ now' = now + 1
    /\ UNCHANGED <<mgr, thr, obs>>
    /\ gate_frame

NextGate ==
    \/ \E t \in Threads : fetch_page(t)
    \/ \E t \in Threads : rate_limit(t)
    \/ \E t \in Threads : rate_limit_wake(t)
    \/ \E t \in Threads : get_browser(t)
    \/ \E t \in Threads : request_attempt(t)
    \/ \E t \in Threads : fetch_page_exit(t)
    \/ \E t \in Threads : backoff_wake(t)
    \/ GateTick

SpecGate == InitGate /\ [][NextGate]_vars

C4_EveryAttemptGated ==
    /\ obs.attempts >= 1 => obs.attempt_gated
    /\ obs.attempts >= 2 => obs.last_attempt - obs.prev_attempt >= MinDelay

-----------------------------------------------------------------------------
(* The site as one crawl finds it, and what the extractors return.         *)

\* what extractor.extract(url) does: returns the page's data, raises the
\* ValueError of _validate_url, the transport error of fetch_page, or
\* SchemaChangeDetected; or KeyboardInterrupt arrives while the page is
\* being fetched
Outcomes ==
    {"ok", "ValueError", "KeyboardInterrupt", "RequestException", "SchemaChangeDetected"}

\* the pages under the league, in discovery order: the series of the league,
\* the seasons of series 1 and the races of season 1 (the other series and
\* seasons are empty)
SitePages(site) ==
    {UrlOf("league", 1)} \cup {UrlOf("series", site.series[i]) : i \in 1..Len(site.series)}
        \cup {UrlOf("season", site.seasons[i]) : i \in 1..Len(site.seasons)}
        \cup {UrlOf("race", site.races[i]) : i \in 1..Len(site.races)}

\* a site with one series, one season and one race.  failing: the pages
\* whose fetch fails after the retries; drifted: the pages validation
\* rejects; invalid: the race links _validate_url rejects; blank: the season
\* and race pages that load but carry none of the tables of their kind;
\* has_results: the season page links race 1 to its results;
\* has_rows: the race page has a result row.  Pages below a failing page
\* are never requested, so they are fixed there.
Sites ==
    { p \in [series : {<<1>>}, seasons : {<<1>>}, races : {<<1>>},
             failing : {{}} \cup {{UrlOf(k, 1)} : k \in {"league", "series", "season", "race"}},
             drifted : {{}}, invalid : {{}}, interrupt : {NULL}, blank : {{}}, unnamed : {{}},
             has_results : BOOLEAN, has_rows : BOOLEAN] :
        /\ p.failing # {} => p.has_results /\ p.has_rows
        /\ ~p.has_results => p.has_rows }

\* extractor.extract(url): league and series pages are validated, season and
\* race pages are not
extract(site, url) ==
    IF url \in site.invalid THEN "ValueError"
    ELSE IF site.interrupt = Some(url) THEN "KeyboardInterrupt"
    ELSE IF url \in site.failing THEN "RequestException"
    ELSE IF url \in site.drifted /\ url[1] \in {"league", "series"} THEN "SchemaChangeDetected"
    ELSE "ok"

\* the name the parent page gives a season
SeasonName(season_id) == IF season_id = 1 THEN "2025 Season" ELSE "2024 Season"

\* league_data["child_urls"]["series"]: series.get("name", "Unknown Series")
\* is the empty string when the page's script gives the series no name
series_urls(site) ==
    [i \in 1..Len(site.series) |->
        [series_id |-> site.series[i], url |-> UrlOf("series", site.series[i]),
         name |-> IF UrlOf("series", site.series[i]) \in site.unnamed
                  THEN Some(EmptyStr) ELSE Some("Series")]]

\* series_data["child_urls"]["seasons"]
seasons_of(site, series_id) ==
    IF series_id # 1 THEN << >>
    ELSE [i \in 1..Len(site.seasons) |->
             [season_id |-> site.seasons[i], url |-> UrlOf("season", site.seasons[i]),
              name |-> Some(SeasonName(site.seasons[i]))]]

\* season_data["child_urls"]["races"]
races_of(site, season_id) ==
    IF season_id # 1 \/ UrlOf("season", season_id) \in site.blank THEN << >>
    ELSE [i \in 1..Len(site.races) |->
             [schedule_id |-> site.races[i], url |-> UrlOf("race", site.races[i]),
              race_number |-> i,
              has_results |-> IF site.races[i] = 1 THEN site.has_results ELSE TRUE]]

\* race_data["results"]
results_of(site, race_url) ==
    IF site.has_rows /\ race_url \notin site.blank
    THEN << [driver_id |-> Some(1), driver_name |-> "First Last",
             finish_position |-> Some("a")] >>
    ELSE << >>

Depths == {"league", "series", "season", "race"}

\* a traversal that descends whatever the depth
AnyDepth(depth, levels) == TRUE

\* if depth in ["series", "season", "race"]: the children are scraped
DepthAllows(depth, levels) == depth \in levels

NoFilters == [series_ids |-> NULL, season_year |-> NULL, season_limit |-> NULL]

\* the slice seq[:n]: the first n elements, and for a negative n all but the
\* last -n
Take(seq, n) ==
    LET stop == IF n < 0 THEN Len(seq) + n ELSE n
    IN  SubSeq(seq, 1, IF stop < 0 THEN 0 ELSE IF stop < Len(seq) THEN stop ELSE Len(seq))

\* str(year) in name
YearIn(season_year, name) ==
    \/ season_year = 2025 /\ name = "2025 Season"
    \/ season_year = 2024 /\ name = "2024 Season"

\* [s for s in seasons if year_str in s.get("name", "")]
SelectSeasons(seq, filters) ==
    IF filters.season_year = NULL THEN seq
    ELSE SelectSeq(seq, LAMBDA x : YearIn(filters.season_year[1], x.name[1]))

\* seasons[: filters["season_limit"]]
LimitSeasons(seq, filters) ==
    IF filters.season_limit = NULL THEN seq ELSE Take(seq, filters.season_limit[1])

\* [s for s in series_urls if s["series_id"] in allowed_ids]
SelectSeries(seq, filters) ==
    IF filters.series_ids = NULL THEN seq
    ELSE SelectSeq(seq, LAMBDA x : x.series_id \in filters.series_ids[1])

-----------------------------------------------------------------------------
(* Orchestrator: each method as a function of the state it reads and       *)
(* writes, s = [db, progress, fetched, visits, raised].                    *)

Visit(s, entity, url) == [s EXCEPT !.visits = Append(@, <<entity, url>>)]

\* the series and season rows of the store, as (url, name) pairs
NamedRows(d) ==
    {<<d.series[k].url[1], d.series[k].name>> : k \in DOMAIN d.series}
        \cup {<<d.seasons[k].url[1], d.seasons[k].name>> : k \in DOMAIN d.seasons}

\* a fetch that is skipped when a series row with the URL is stored
FetchUnlessStored(s, url) ==
    IF RowsWithUrl(s.db.series, url) # {} THEN s
    ELSE [s EXCEPT !.fetched = Append(@, url), !.seen = Append(@, NamedRows(s.db))]

\* extractor.extract(url) reaching fetch_page; seen records the rows the
\* store holds at that moment
Fetch(s, url) ==
    [s EXCEPT !.fetched = Append(@, url), !.seen = Append(@, NamedRows(s.db))]

\* KeyboardInterrupt handled like an Exception that is swallowed
InterruptSwallowed(s) == s

\* KeyboardInterrupt is not an Exception: no except branch of the traversal
\* handles it and it leaves every loop
Interrupted(s) == [s EXCEPT !.raised = "KeyboardInterrupt"]

\* an except branch that records nothing
FailedSilently(s, entity, url) == s

\* the except branch: the error recorded and a failed row logged
Failed(s, entity, url) ==
    [s EXCEPT !.progress.errors = Append(@, [entity |-> entity, url |-> url]),
              !.db = log_scrape(s.db, entity, url, "failed", Some("error"), 0).db]

\* a success that leaves no row in scrape_log
SucceededUnlogged(s, entity, url) == s

\* log_scrape(entity, url, "success")
Succeeded(s, entity, url) ==
    [s EXCEPT !.db = log_scrape(s.db, entity, url, "success", NULL, 0).db]

\* progress["skipped_cached"] += 1; return
SkippedCached(s) == [s EXCEPT !.progress.skipped_cached = @ + 1]

\* _parse_driver_name on a two-word name
_parse_driver_name(driver_name) ==
    IF driver_name = "First Last" THEN <<Some("First"), Some("Last")>>
    ELSE <<NULL, NULL>>

_store_race_result(s, race_id, result, season_id) ==
    LET season == get_season(s.db, season_id)
    IN  IF result.driver_id = NULL \/ season = NULL THEN s
        ELSE LET series == get_series(s.db, season[1].series_id)
             IN  IF series = NULL THEN s
                 ELSE LET names == _parse_driver_name(result.driver_name)
                          d == upsert_driver(s.db, result.driver_id[1], series[1].league_id,
                                   [name |-> Some(result.driver_name),
                                    first_name |-> names[1], last_name |-> names[2],
                                    url |-> Some(UrlOf("driver", result.driver_id[1])),
                                    scraped_at |-> Some(isoformat(now))])
                      IN  IF ~d.ok THEN s
                          ELSE [s EXCEPT !.db =
                                   upsert_race_result(d.db, race_id, result.driver_id[1],
                                       [finish_position |-> result.finish_position]).db]

RECURSIVE StoreResults(_, _, _, _)
\* for result in results: self._store_race_result(race_id, result, season_id)
StoreResults(s, race_id, results, season_id) ==
    IF results = << >> THEN s
    ELSE StoreResults(_store_race_result(s, race_id, Head(results), season_id),
                      race_id, Tail(results), season_id)

\* _build_race_data with schedule = None: the HTML metadata
_build_race_data(url, race_number, num_drivers) ==
    [url |-> Some(url), race_number |-> Some(race_number),
     num_drivers |-> Some(num_drivers), is_complete |-> Some(TRUE),
     scraped_at |-> Some(isoformat(now)),
     track_name |-> Some("a"), date |-> Some("a"), total_laps |-> Some("a")]

\* the loop over the results of a race page, as a moment at which Ctrl-C can
\* arrive: the race row is stored, no result of the page is
InResults(race_url) == <<"results", race_url[2]>>

scrape_race(s0, site, race_url, season_id, schedule_id, race_number, has_results, cache_max_age_days, force) ==
    LET s == Visit(s0, "race", race_url)
    IN  IF ~has_results
        THEN LET r == upsert_race(s.db, schedule_id, season_id,
                          [url |-> Some(race_url), is_complete |-> Some(FALSE),
                           scraped_at |-> Some(isoformat(now)),
                           race_number |-> Some(race_number)])
             IN  IF r.ok THEN [s EXCEPT !.db = r.db] ELSE Failed(s, "race", race_url)
        ELSE IF ~force /\ is_race_complete(s.db, schedule_id) THEN SkippedCached(s)
        ELSE IF /\ ~force
                /\ cache_max_age_days # NULL
                /\ is_url_cached(s.db, race_url, "race", cache_max_age_days).ret = TRUE
        THEN SkippedCached(s)
        ELSE LET s1 == IF extract(site, race_url) = "ValueError"
                       THEN [s EXCEPT !.rejected = @ \cup {race_url}]
                       ELSE Fetch(s, race_url)
                 results == results_of(site, race_url)
                 r == upsert_race(s1.db, schedule_id, season_id,
                          _build_race_data(race_url, race_number, Len(results)))
             IN  IF extract(site, race_url) = "KeyboardInterrupt" THEN Interrupted(s1)
                 ELSE IF extract(site, race_url) # "ok" \/ ~r.ok THEN Failed(s1, "race", race_url)
                 ELSE IF site.interrupt = Some(InResults(race_url)) /\ results # << >>
                 THEN Interrupted([s1 EXCEPT !.db = r.db, !.progress.races_scraped = @ + 1])
                 ELSE Succeeded(
                          StoreResults([s1 EXCEPT !.db = r.db,
                                                  !.progress.races_scraped = @ + 1],
                                       r.ret, results, season_id),
                          "race", race_url)

RECURSIVE ScrapeRacesReversed(_, _, _, _, _, _)
\* the races of a season scraped last to first
ScrapeRacesReversed(s, site, races, season_id, cache_max_age_days, force) ==
    IF races = << >> THEN s
    ELSE scrape_race(
             ScrapeRacesReversed(s, site, Tail(races), season_id, cache_max_age_days, force),
             site, Head(races).url, season_id, Head(races).schedule_id,
             Head(races).race_number, Head(races).has_results, cache_max_age_days, force)

RECURSIVE ScrapeRaces(_, _, _, _, _, _)
\* for race_info in races: self.scrape_race(...)
ScrapeRaces(s, site, races, season_id, cache_max_age_days, force) ==
    IF races = << >> \/ s.raised # "" THEN s
    ELSE ScrapeRaces(
             scrape_race(s, site, Head(races).url, season_id, Head(races).schedule_id,
                         Head(races).race_number, Head(races).has_results,
                         cache_max_age_days, force),
             site, Tail(races), season_id, cache_max_age_days, force)

scrape_season(s0, site, season_url, season_id, series_id, depth, filters, cache_max_age_days, force) ==
    LET s == Visit(s0, "season", season_url)
    IN  IF /\ cache_max_age_days # NULL
           /\ is_url_cached(s.db, season_url, "season", cache_max_age_days).ret = TRUE
        THEN SkippedCached(s)
        ELSE LET s1 == Fetch(s, season_url)
                 existing_season == get_season(s1.db, season_id)
                 season_name == IF existing_season # NULL /\ TruthyStr(existing_season[1].name)
                                THEN existing_season[1].name ELSE Some("Season page")
                 r == upsert_season(s1.db, season_id, series_id,
                          [name |-> season_name, url |-> Some(season_url),
                           scraped_at |-> Some(isoformat(now))])
             IN  IF extract(site, season_url) = "KeyboardInterrupt" THEN Interrupted(s1)
                 ELSE IF extract(site, season_url) # "ok" \/ ~r.ok THEN Failed(s1, "season", season_url)
                 ELSE LET s2 == Succeeded([s1 EXCEPT !.db = r.db,
                                                     !.progress.seasons_scraped = @ + 1],
                                          "season", season_url)
                      IN  IF DepthAllows(depth, {"race"})
                          THEN ScrapeRaces(s2, site, races_of(site, season_id), season_id,
                                           cache_max_age_days, force)
                          ELSE s2

RECURSIVE DiscoverSeasons(_, _, _)
\* for season_info in seasons: upsert_season(..., scraped_at = epoch)
DiscoverSeasons(d, seasons, series_id) ==
    IF seasons = << >> THEN Return(d, NULL)
    ELSE LET r == upsert_season(d, Head(seasons).season_id, series_id,
                      [name |-> Head(seasons).name, url |-> Some(Head(seasons).url),
                       scraped_at |-> Some(EpochSentinel)])
         IN  IF r.ok THEN DiscoverSeasons(r.db, Tail(seasons), series_id) ELSE r

RECURSIVE ScrapeSeasons(_, _, _, _, _, _, _, _)
\* for season_info in seasons: self.scrape_season(...)
ScrapeSeasons(s, site, seasons, series_id, depth, filters, cache_max_age_days, force) ==
    IF seasons = << >> \/ s.raised # "" THEN s
    ELSE ScrapeSeasons(
             scrape_season(s, site, Head(seasons).url, Head(seasons).season_id, series_id,
                           depth, filters, cache_max_age_days, force),
             site, Tail(seasons), series_id, depth, filters, cache_max_age_days, force)

scrape_series(s0, site, series_url, league_id, depth, filters, cache_max_age_days, force) ==
    LET s1 == Fetch(Visit(s0, "series", series_url), series_url)
        series_id == series_url[2]
        existing_series == get_series(s1.db, series_id)
        series_name == IF existing_series # NULL /\ TruthyStr(existing_series[1].name)
                       THEN existing_series[1].name ELSE Some("Series page")
        \* the series page carries none of the optional fields: the stored
        \* values are copied when they are truthy
        kept == {f \in series_optional :
                    existing_series # NULL /\ existing_series[1][f] # NULL}
        db_data == [name |-> series_name, url |-> Some(series_url),
                    scraped_at |-> Some(isoformat(now))]
                   @@ [f \in kept |-> existing_series[1][f]]
        r == upsert_series(s1.db, series_id, league_id, db_data)
    IN  IF extract(site, series_url) = "KeyboardInterrupt" THEN Interrupted(s1)
        ELSE IF extract(site, series_url) # "ok" \/ ~r.ok THEN Failed(s1, "series", series_url)
        ELSE LET s2 == Succeeded([s1 EXCEPT !.db = r.db,
                                            !.progress.series_scraped = @ + 1],
                                 "series", series_url)
                 seasons == LimitSeasons(SelectSeasons(seasons_of(site, series_id), filters),
                                         filters)
                 found == DiscoverSeasons(s2.db, seasons, series_id)
             IN  IF ~DepthAllows(depth, {"season", "race"}) THEN s2
                 ELSE IF ~found.ok THEN Failed([s2 EXCEPT !.db = found.db],
                                               "series", series_url)
                 ELSE ScrapeSeasons([s2 EXCEPT !.db = found.db], site, seasons, series_id,
                                    depth, filters, cache_max_age_days, force)

\* no row written at discovery
DiscoverNothing(d, series, league_id) == Return(d, NULL)

RECURSIVE DiscoverSeries(_, _, _)
\* for series_info in series_urls: upsert_series(..., scraped_at = epoch)
DiscoverSeries(d, series, league_id) ==
    IF series = << >> THEN Return(d, NULL)
    ELSE LET r == upsert_series(d, Head(series).series_id, league_id,
                      [name |-> Head(series).name, url |-> Some(Head(series).url),
                       scraped_at |-> Some(EpochSentinel)])
         IN  IF r.ok THEN DiscoverSeries(r.db, Tail(series), league_id) ELSE r

RECURSIVE ScrapeSeries(_, _, _, _, _, _, _, _)
\* for series_info in series_urls: self.scrape_series(...)
ScrapeSeries(s, site, series, league_id, depth, filters, cache_max_age_days, force) ==
    IF series = << >> \/ s.raised # "" THEN s
    ELSE ScrapeSeries(
             scrape_series(s, site, Head(series).url, league_id, depth, filters,
                           cache_max_age_days, force),
             site, Tail(series), league_id, depth, filters, cache_max_age_days, force)

\* except Exception in scrape_league: recorded, logged and raised again
Reraised(s, league_url) == [Failed(s, "league", league_url) EXCEPT !.raised = "Exception"]

scrape_league(s0, site, league_url, depth, filters, cache_max_age_days, force) ==
    LET s1 == Fetch(Visit(s0, "league", league_url), league_url)
        league_id == league_url[2]
        r == upsert_league(s1.db, league_id,
                 [name |-> Some("League"), url |-> Some(league_url),
                  description |-> Some("a"), organizer |-> NULL,
                  scraped_at |-> Some(isoformat(now))])
    IN  IF extract(site, league_url) = "KeyboardInterrupt" THEN Interrupted(s1)
        ELSE IF extract(site, league_url) # "ok" \/ ~r.ok THEN Reraised(s1, league_url)
        ELSE LET s2 == Succeeded([s1 EXCEPT !.db = r.db,
                                            !.progress.leagues_scraped = @ + 1],
                                 "league", league_url)
                 series == SelectSeries(series_urls(site), filters)
                 found == DiscoverSeries(s2.db, series, league_id)
             IN  IF ~DepthAllows(depth, {"series", "season", "race"}) THEN s2
                 ELSE IF ~found.ok THEN Reraised([s2 EXCEPT !.db = found.db], league_url)
                 ELSE ScrapeSeries([s2 EXCEPT !.db = found.db], site, series, league_id,
                                   depth, filters, cache_max_age_days, force)

-----------------------------------------------------------------------------
(* Spec: calls of the orchestrator's entry points on one database.         *)

MaxRuns == 2

CacheAges == {NULL, Some(DefaultMaxAgeDays)}

Range(seq) == {seq[i] : i \in 1..Len(seq)}

Init ==
    /\ now = StartTime
    /\ db = EmptyDb
    /\ last_call = NoCall
    /\ GateIdle /\ OrchestratorIdle

\* scrape_log holds a success row for the race page
RaceScrapedOk(d) ==
    \E i \in 1..Len(d.scrape_log) :
        /\ d.scrape_log[i].entity_type = "race"
        /\ d.scrape_log[i].entity_url = UrlOf("race", 1)
        /\ d.scrape_log[i].status = "success"

\* the season row was scraped less than DefaultMaxAgeDays before the time
SeasonFreshAt(d, at) ==
    \E k \in DOMAIN d.seasons :
        /\ d.seasons[k].url = Some(UrlOf("season", 1))
        /\ d.seasons[k].scraped_at[1].fmt = "iso"
        /\ d.seasons[k].scraped_at[1].t > at - DefaultMaxAgeDays * SecondsPerDay

\* the state a call starts from
Begin(p) ==
    [db |-> db, progress |-> p, fetched |-> << >>, visits |-> << >>, seen |-> << >>,
     rejected |-> {}, raised |-> ""]

\* cli.main: return 130 on KeyboardInterrupt, 1 on any other exception, else 0
ExitCode(raised) ==
    IF raised = "KeyboardInterrupt" THEN 130 ELSE IF raised # "" THEN 1 ELSE 0

\* Orchestrator.__exit__: the interrupted argument of BrowserManager.close
__exit__(exc_type) == exc_type = "KeyboardInterrupt"

\* the state a call leaves, and the record of the call: its arguments,
\* whether the race had been scraped and the season was fresh when it began,
\* the children the site lists, the requested pages that failed, the links
\* _validate_url rejected, and the rows the store held at each fetch
Finish(s, op, p, depth, filters, cache_max_age_days, force, site) ==
    /\ db' = s.db
    /\ progress' = s.progress
    /\ fetched' = s.fetched
    /\ visits' = s.visits
    /\ run' = [op |-> op, depth |-> depth, cache_max_age_days |-> cache_max_age_days,
               force |-> force, has_results |-> site.has_results,
               race_done |-> RaceScrapedOk(db), season_fresh |-> SeasonFreshAt(db, now),
               skipped_cached |-> p.skipped_cached, at |-> now, raised |-> s.raised,
               n |-> run.n + 1, filters |-> filters, series |-> site.series,
               seasons |-> site.seasons,
               races |-> IF UrlOf("season", 1) \in site.blank THEN << >> ELSE site.races,
               failing |-> site.failing \cap {s.fetched[i] : i \in 1..Len(s.fetched)},
               drifted |-> site.drifted \cap {s.fetched[i] : i \in 1..Len(s.fetched)},
               invalid |-> s.rejected,
               seen |-> s.seen, interrupt |-> site.interrupt,
               blank |-> site.blank \cap {s.fetched[i] : i \in 1..Len(s.fetched)},
               exit_code |-> IF op = "main" THEN Some(ExitCode(s.raised)) ELSE NULL,
               close_interrupted |-> IF op = "main" THEN Some(__exit__(s.raised)) ELSE NULL,
               unnamed |-> site.unnamed]
    /\ UNCHANGED <<now, last_call, gate_vars>>

\* orchestrator.scrape_league(url, depth, filters, cache_max_age_days, force)
CallScrapeLeague ==
    /\ run.n < MaxRuns
    /\ \E site \in Sites, depth \in Depths, cache_max_age_days \in CacheAges, force \in BOOLEAN :
           Finish(scrape_league(Begin(progress), site, UrlOf("league", 1), depth, NoFilters,
                                cache_max_age_days, force),
                  "scrape_league", progress, depth, NoFilters, cache_max_age_days, force, site)

\* orchestrator.scrape_season(url, season_id, series_id, depth, ...)
CallScrapeSeason ==
    /\ run.n < MaxRuns
    /\ \E site \in {p \in Sites : p.failing \subseteq {UrlOf("season", 1), UrlOf("race", 1)}},
          depth \in {"season", "race"}, cache_max_age_days \in CacheAges, force \in BOOLEAN :
           Finish(scrape_season(Begin(progress), site, UrlOf("season", 1), 1, 1, depth,
                                NoFilters, cache_max_age_days, force),
                  "scrape_season", progress, depth, NoFilters, cache_max_age_days, force, site)

\* orchestrator.scrape_race(url, season_id, schedule_id, race_number, has_results, ...)
CallScrapeRace ==
    /\ run.n < MaxRuns
    /\ \E site \in {p \in Sites : p.failing \subseteq {UrlOf("race", 1)}},
          cache_max_age_days \in CacheAges \cup {Some(0)}, force \in BOOLEAN :
           Finish(scrape_race(Begin(progress), site, UrlOf("race", 1), 1, 1, 1,
                              site.has_results, cache_max_age_days, force),
                  "scrape_race", progress, "race", NoFilters, cache_max_age_days, force,
                  site)

\* cli.main: scrape league 1 [--depth d] [--force], with a new Orchestrator
main ==
    /\ run.n < MaxRuns
    /\ \E site \in Sites, depth \in Depths, force \in BOOLEAN :
           LET cache_max_age == IF force THEN NULL ELSE Some(DefaultMaxAgeDays)
           IN  Finish(scrape_league(Begin(NewProgress), site, UrlOf("league", 1), depth,
                                    NoFilters, cache_max_age, FALSE),
                      "main", NewProgress, depth, NoFilters, cache_max_age, force, site)

\* DriverExtractor._extract_driver_stats: the three statistics of the
\* profile, or None for each when the page's script holds none
driver_stats(found) ==
    IF found
    THEN [irating |-> Some(1500), safety_rating |-> Some("a"), license_class |-> Some("a")]
    ELSE [irating |-> NULL, safety_rating |-> NULL, license_class |-> NULL]

refresh_driver_data(s0, site, driver_id, metadata, cache_max_age_days, force) ==
    LET driver_url == UrlOf("driver", driver_id)
        s == Visit(s0, "driver", driver_url)
    IN  IF ~force /\ is_url_cached(s.db, driver_url, "driver", cache_max_age_days).ret = TRUE
        THEN SkippedCached(s)
        ELSE LET s1 == Fetch(s, driver_url)
                 existing_driver == get_driver(s1.db, driver_id)
                 r == upsert_driver(s1.db, driver_id, existing_driver[1].league_id,
                          [name |-> existing_driver[1].name, url |-> Some(driver_url),
                           irating |-> metadata.irating,
                           safety_rating |-> metadata.safety_rating,
                           license_class |-> metadata.license_class,
                           scraped_at |-> Some(isoformat(now))])
             IN  IF extract(site, driver_url) = "KeyboardInterrupt" THEN Interrupted(s1)
                 ELSE IF extract(site, driver_url) # "ok" THEN Failed(s1, "driver", driver_url)
                 ELSE IF existing_driver = NULL THEN s1
                 ELSE IF ~r.ok THEN Failed(s1, "driver", driver_url)
                 ELSE Succeeded([s1 EXCEPT !.db = r.db], "driver", driver_url)

\* orchestrator.refresh_driver_data(driver_id, cache_max_age_days, force)
CallRefreshDriver ==
    /\ run.n < MaxRuns
    /\ \E site \in {p \in Sites : p.failing = {} /\ p.has_results /\ p.has_rows},
          found \in BOOLEAN, cache_max_age_days \in {Some(0), Some(DefaultMaxAgeDays)},
          force \in BOOLEAN :
           Finish(refresh_driver_data(Begin(progress), site, 1, driver_stats(found),
                                      cache_max_age_days, force),
                  "refresh_driver_data", progress, "", NoFilters, cache_max_age_days, force,
                  site)

\* an hour passes between two calls
OrchTick ==
    /\ run.n < MaxRuns
    /\ now < StartTime + run.n * SecondsPerHour
    /\ now' = now + SecondsPerHour
    /\ UNCHANGED <<db, last_call, gate_vars, orch_vars>>

Next ==
    \/ CallScrapeLeague
    \/ CallScrapeSeason
    \/ CallScrapeRace
    \/ main
    \/ CallRefreshDriver
    \/ OrchTick

Spec == Init /\ [][Next]_vars

\* C2: once scrape_race has fetched and stored race s, is_race_complete(s)
\* is true, and every later scrape_race for s with force=false performs no
\* fetch and adds one to skipped_cached, whatever cache_max_age_days and the
\* other arguments are.
C2_CompletedRaceNeverRefetched ==
    /\ RaceScrapedOk(db) => is_race_complete(db, 1)
    /\ (run.op = "scrape_race" /\ ~run.force /\ run.race_done) =>
           /\ fetched = << >>
           /\ progress.skipped_cached = run.skipped_cached + 1

\* C8: when the season row of U was scraped within cache_max_age_days, a
\* scrape_league run with force=false that reaches the season does not fetch
\* U and counts it in skipped_cached.
C8_FreshSeasonSkippedByLeagueRun ==
    (/\ run.op = "scrape_league" /\ ~run.force
     /\ run.cache_max_age_days = Some(DefaultMaxAgeDays)
     /\ run.season_fresh
     /\ <<"season", UrlOf("season", 1)>> \in Range(visits))
    => /\ UrlOf("season", 1) \notin Range(fetched)
       /\ progress.skipped_cached > run.skipped_cached

\* C9: scrape_season called with force=true fetches the season page, also
\* when is_url_cached reports the URL as fresh.
C9_ForcedSeasonFetched ==
    (run.op = "scrape_season" /\ run.force) => UrlOf("season", 1) \in Range(fetched)

\* C10: a CLI run with --force skips nothing as cached: every league,
\* series, season and race page the traversal reaches is fetched, also a
\* race whose completion flag is set.
C10_CliForceBypassesCache ==
    (run.op = "main" /\ run.force) =>
        /\ progress.skipped_cached = 0
        /\ \A v \in Range(visits) :
               v[2] \in Range(fetched) \/ (v[1] = "race" /\ ~run.has_results)

\* a season or race row with the URL is stored
HasRow(d, url) ==
    \/ url[1] = "season" /\ RowsWithUrl(d.seasons, url) # {}
    \/ url[1] = "race" /\ RowsWithUrl(d.races, url) # {}

\* C11: in a call with cache_max_age_days = None and force = false, a season
\* or race whose URL had a stored row when the call began is not fetched,
\* and the call counts a skip.
C11_NoneNeverExpires ==
    [][(run'.n # run.n /\ run'.cache_max_age_days = NULL /\ ~run'.force) =>
          \A v \in Range(visits') :
              (HasRow(db, v[2]) /\ (v[1] = "race" => run'.has_results)) =>
                  /\ v[2] \notin Range(fetched')
                  /\ progress'.skipped_cached > run'.skipped_cached]_vars

-----------------------------------------------------------------------------
(* SpecCrawl: one scrape_league run by a new Orchestrator over a league     *)
(* with two series, two seasons and two races, on a store that is empty or  *)
(* holds an earlier complete crawl.                                         *)

MaxFailures == 2

MaxLimit == 3

\* the league page, two series, two seasons under series 1 and two races
\* under season 1; at most MaxFailures pages fail, are rejected or have a
\* link the race extractor does not accept
CrawlSites ==
    { p \in [series : {<<1, 2>>}, seasons : {<<1, 2>>}, races : {<<1, 2>>},
             failing : SUBSET SitePages([series |-> <<1, 2>>, seasons |-> <<1, 2>>,
                                         races |-> <<1, 2>>]),
             drifted : SUBSET {UrlOf("league", 1), UrlOf("series", 1), UrlOf("series", 2)},
             invalid : SUBSET {UrlOf("race", 1), UrlOf("race", 2)},
             interrupt : {NULL}, blank : {{}}, unnamed : {{}}, has_results : {TRUE}, has_rows : {TRUE}] :
        /\ p.failing \cap (p.drifted \cup p.invalid) = {}
        /\ Cardinality(p.failing) + Cardinality(p.drifted) + Cardinality(p.invalid)
               <= MaxFailures }

\* the filters dict: absent keys, and values for each key
CrawlFilters ==
    [series_ids : {NULL, Some({1}), Some({2})},
     season_year : {NULL, Some(2025)},
     season_limit : {NULL} \cup {Some(n) : n \in (-1)..MaxLimit}]

HealthySite ==
    [series |-> <<1, 2>>, seasons |-> <<1, 2>>, races |-> <<1, 2>>, failing |-> {},
     drifted |-> {}, invalid |-> {}, interrupt |-> NULL, blank |-> {}, unnamed |-> {},
     has_results |-> TRUE, has_rows |-> TRUE]

InitCrawl ==
    /\ now = StartTime
    /\ db = EmptyDb
    /\ last_call = NoCall
    /\ GateIdle /\ OrchestratorIdle

\* an earlier run: the whole league scraped to depth race
CrawlEarlier ==
    /\ run.op = "none" /\ db = EmptyDb
    /\ db' = scrape_league(Begin(NewProgress), HealthySite, UrlOf("league", 1), "race",
                           NoFilters, Some(DefaultMaxAgeDays), FALSE).db
    /\ UNCHANGED <<now, last_call, gate_vars, orch_vars>>

\* the cache period passes before the run
CrawlTick ==
    /\ run.op = "none" /\ now = StartTime
    /\ now' = now + DefaultMaxAgeDays * SecondsPerDay
    /\ UNCHANGED <<db, last_call, gate_vars, orch_vars>>

\* Orchestrator(...).scrape_league(url, depth, filters, cache_max_age_days, force)
Crawl ==
    /\ run.op = "none"
    /\ \E site \in CrawlSites, depth \in Depths, filters \in CrawlFilters,
          cache_max_age_days \in CacheAges, force \in BOOLEAN :
           Finish(scrape_league(Begin(NewProgress), site, UrlOf("league", 1), depth, filters,
                                cache_max_age_days, force),
                  "scrape_league", NewProgress, depth, filters, cache_max_age_days, force,
                  site)

\* Orchestrator(...).scrape_season(url, season_id, 1, depth, ...), called
\* directly with the URL of a listed season
CrawlSeason ==
    /\ run.op = "none"
    /\ \E site \in {p \in CrawlSites : p.drifted = {}}, season_id \in {1, 2},
          depth \in {"season", "race"}, cache_max_age_days \in CacheAges, force \in BOOLEAN :
           Finish(scrape_season(Begin(NewProgress), site, UrlOf("season", season_id),
                                season_id, 1, depth, NoFilters, cache_max_age_days, force),
                  "scrape_season", NewProgress, depth, NoFilters, cache_max_age_days, force,
                  site)

\* cli.main: scrape league 1 [--depth d] [--force] inside the Orchestrator
\* context manager, with Ctrl-C pressed while one page is being fetched or
\* while the results of race 1 are being stored
CrawlMain ==
    /\ run.op = "none"
    /\ \E site \in CrawlSites, depth \in Depths, force \in BOOLEAN,
          page \in SitePages(HealthySite) \cup {InResults(UrlOf("race", 1))} :
           LET cache_max_age == IF force THEN NULL ELSE Some(DefaultMaxAgeDays)
               interrupted == [site EXCEPT !.interrupt = Some(page)]
           IN  Finish(scrape_league(Begin(NewProgress), interrupted, UrlOf("league", 1),
                                    depth, NoFilters, cache_max_age, FALSE),
                      "main", NewProgress, depth, NoFilters, cache_max_age, force,
                      interrupted)

\* scrape_league to depth race on a site where a season page or a race page
\* loads without the tables of its kind
CrawlBlank ==
    /\ run.op = "none"
    /\ \E blank \in (SUBSET {UrlOf("season", 1), UrlOf("season", 2), UrlOf("race", 1)}) \ {{}},
          force \in BOOLEAN :
           LET site == [HealthySite EXCEPT !.blank = blank]
           IN  Finish(scrape_league(Begin(NewProgress), site, UrlOf("league", 1), "race",
                                    NoFilters, NULL, force),
                      "scrape_league", NewProgress, "race", NoFilters, NULL, force, site)

\* scrape_league on a site whose league page lists a series with an empty
\* name (name: "" in the page's script)
CrawlUnnamed ==
    /\ run.op = "none"
    /\ \E unnamed \in (SUBSET {UrlOf("series", 1), UrlOf("series", 2)}) \ {{}},
          depth \in Depths, force \in BOOLEAN :
           LET site == [HealthySite EXCEPT !.unnamed = unnamed]
           IN  Finish(scrape_league(Begin(NewProgress), site, UrlOf("league", 1), depth,
                                    NoFilters, NULL, force),
                      "scrape_league", NewProgress, depth, NoFilters, NULL, force, site)

NextCrawl ==
    \/ CrawlEarlier
    \/ CrawlTick
    \/ Crawl
    \/ CrawlSeason
    \/ CrawlMain
    \/ CrawlBlank
    \/ CrawlUnnamed

SpecCrawl == InitCrawl /\ [][NextCrawl]_vars

\* the series of the run's league page that pass the series_ids filter
PassingSeries ==
    {run.series[i] : i \in 1..Len(run.series)} \cap
        (IF run.filters.series_ids = NULL THEN {run.series[i] : i \in 1..Len(run.series)}
         ELSE run.filters.series_ids[1])

\* the league page of the run was fetched and accepted, and the series it
\* lists were stored
LeaguePageRead ==
    /\ UrlOf("league", 1) \notin run.failing \cup run.drifted
    /\ \A i \in 1..Len(run.series) : UrlOf("series", run.series[i]) \notin run.unnamed

\* C12: every scrape_league run fetches the league page, and at depth series
\* or deeper, once the league page is read, fetches the page of every series
\* that passes the series_ids filter, whatever rows the store holds, however
\* old they are, and whatever cache_max_age_days and force are.
C12_LeagueAndSeriesAlwaysFetched ==
    run.op = "scrape_league" =>
        /\ UrlOf("league", 1) \in Range(fetched)
        /\ (run.depth # "league" /\ LeaguePageRead) =>
               \A id \in PassingSeries : UrlOf("series", id) \in Range(fetched)

\* a run with force = false and a cache period over a store whose rows are
\* fresh: seasons are skipped, the league and both series are fetched
C12_Witness_FreshRowsStillFetched ==
    /\ run.op = "scrape_league" /\ ~run.force
    /\ run.cache_max_age_days = Some(DefaultMaxAgeDays)
    /\ progress.skipped_cached > 0
    /\ PassingSeries = {1, 2}
    /\ {UrlOf("league", 1), UrlOf("series", 1), UrlOf("series", 2)} \subseteq Range(fetched)

\* the seasons of the run's series page that pass season_year and
\* season_limit, in discovery order
PassingSeasons ==
    LET listed == seasons_of([seasons |-> run.seasons], 1)
        kept == LimitSeasons(SelectSeasons(listed, run.filters), run.filters)
    IN  {kept[i].season_id : i \in 1..Len(kept)}

\* C13: in a scrape_league run, whenever a series page is fetched every
\* series that passes the filter already has a stored row with the name the
\* league page gave it, and whenever a season page is fetched every season
\* that passes the filters already has a stored row with the name the series
\* page gave it; a series or season whose own page then fails or is rejected
\* still has that row, with that name, after the run.
C13_ParentDiscoveryWrite ==
    run.op = "scrape_league" =>
        /\ \A i \in 1..Len(fetched) :
               /\ fetched[i][1] = "series" =>
                      \A id \in PassingSeries :
                          <<UrlOf("series", id), Some("Series")>> \in run.seen[i]
               /\ fetched[i][1] = "season" =>
                      \A id \in PassingSeasons :
                          <<UrlOf("season", id), Some(SeasonName(id))>> \in run.seen[i]
        /\ \A url \in run.failing \cup run.drifted :
               /\ url[1] = "series" => <<url, Some("Series")>> \in NamedRows(db)
               /\ url[1] = "season" => <<url, Some(SeasonName(url[2]))>> \in NamedRows(db)

\* a run on an empty store in which the page of series 2 is rejected and
\* the page of season 1 fails: both rows are there with their names
C13_Witness_RowSurvivesFailure ==
    /\ run.op = "scrape_league" /\ run.depth = "season"
    /\ DOMAIN db.races = {}
    /\ UrlOf("series", 2) \in run.drifted
    /\ UrlOf("season", 1) \in run.failing
    /\ <<UrlOf("series", 2), Some("Series")>> \in NamedRows(db)
    /\ <<UrlOf("season", 1), Some("2025 Season")>> \in NamedRows(db)

\* the visits of one kind, in the order they were made
VisitedOf(kind) == SelectSeq(visits, LAMBDA v : v[1] = kind)

\* progress["errors"] has an entry for the entity
ErrorFor(kind, url) == [entity |-> kind, url |-> url] \in Range(progress.errors)

\* the rows of scrape_log with status 'failed'
FailedRows == {i \in 1..Len(db.scrape_log) : db.scrape_log[i].status = "failed"}

LoggedFailed(kind, url) ==
    \E i \in FailedRows :
        db.scrape_log[i].entity_type = kind /\ db.scrape_log[i].entity_url = url

\* the series, seasons and races the parent pages of the run list, after the
\* filters, as the visits the traversal makes
ExpectedSeries ==
    LET kept == SelectSeries(series_urls([series |-> run.series, unnamed |-> {}]), run.filters)
    IN  [i \in 1..Len(kept) |-> <<"series", kept[i].url>>]

ExpectedSeasons ==
    LET listed == seasons_of([seasons |-> run.seasons], 1)
        kept == LimitSeasons(SelectSeasons(listed, run.filters), run.filters)
    IN  [i \in 1..Len(kept) |-> <<"season", kept[i].url>>]

ExpectedRaces == [i \in 1..Len(run.races) |-> <<"race", UrlOf("race", run.races[i])>>]

\* C14: when the scrape of a series, season or race fails (its fetch fails,
\* its page is rejected, its link is not a race URL, or the store refuses
\* its row), progress.errors has an entry for it and scrape_log a 'failed'
\* row, every error entry has its 'failed' row, nothing is raised out of the
\* call, and the siblings are all visited, in discovery order.
C14_FailureIsolated ==
    run.op \in {"scrape_league", "scrape_season"} =>
        /\ \A url \in run.failing \cup run.drifted \cup run.invalid :
               url[1] # "league" => ErrorFor(url[1], url) /\ LoggedFailed(url[1], url)
        /\ (run.op = "scrape_season" /\ DOMAIN db.series = {} /\ fetched # << >>) =>
               ErrorFor("season", fetched[1]) /\ LoggedFailed("season", fetched[1])
        /\ Len(progress.errors) = Cardinality(FailedRows)
        /\ LeaguePageRead => run.raised = ""
        /\ (run.op = "scrape_league" /\ LeaguePageRead /\ run.depth # "league") =>
               VisitedOf("series") = ExpectedSeries
        /\ (/\ run.op = "scrape_league" /\ run.depth \in {"season", "race"}
            /\ UrlOf("series", 1) \in Range(fetched)
            /\ ~ErrorFor("series", UrlOf("series", 1))) =>
               VisitedOf("season") = ExpectedSeasons
        /\ (/\ run.depth = "race"
            /\ UrlOf("season", 1) \in Range(fetched)
            /\ ~ErrorFor("season", UrlOf("season", 1))) =>
               VisitedOf("race") = ExpectedRaces

\* the link of race 1 is rejected and the page of season 2 fails:
\* race 2, season 2 and series 2 are visited all the same
C14_Witness_LaterSiblingsVisited ==
    /\ run.op = "scrape_league"
    /\ UrlOf("race", 1) \in run.invalid
    /\ UrlOf("season", 2) \in run.failing
    /\ ErrorFor("race", UrlOf("race", 1)) /\ ErrorFor("season", UrlOf("season", 2))
    /\ UrlOf("race", 2) \in Range(fetched)
    /\ VisitedOf("series") = <<<<"series", UrlOf("series", 1)>>, <<"series", UrlOf("series", 2)>>>>

\* C15: when the league page's own fetch or validation fails, scrape_league
\* records the error in progress.errors and in scrape_log and returns the
\* progress snapshot: no exception leaves the call.
C15_LeagueFailureReturnsSnapshot ==
    (run.op = "scrape_league" /\ ~LeaguePageRead) =>
        /\ ErrorFor("league", UrlOf("league", 1))
        /\ LoggedFailed("league", UrlOf("league", 1))
        /\ run.raised = ""

\* the rows of schema_alerts for a page
AlertsFor(kind, url) ==
    {i \in 1..Len(db.schema_alerts) :
        db.schema_alerts[i].entity_type = kind /\ db.schema_alerts[i].url = url}

\* C16: for every page the validator rejected during the run there is
\* exactly one schema_alerts row with its entity kind and URL, next to its
\* 'failed' scrape_log row.
C16_RejectedPageRaisesAlert ==
    run.op = "scrape_league" =>
        \A url \in run.drifted :
            /\ Cardinality(AlertsFor(url[1], url)) = 1
            /\ LoggedFailed(url[1], url)

\* the rows of scrape_log with status 'skipped' for a URL
SkippedRows(url) ==
    {i \in 1..Len(db.scrape_log) :
        db.scrape_log[i].status = "skipped" /\ db.scrape_log[i].entity_url = url}

\* C17: every season or race the run visits and skips as cached or as
\* already complete (its link is a valid one and its page is not fetched)
\* has one scrape_log row with status 'skipped' for its URL.
C17_SkipIsLogged ==
    run.op \in {"scrape_league", "scrape_season"} =>
        \A v \in Range(visits) :
            (v[1] \in {"season", "race"} /\ v[2] \notin Range(fetched) \cup run.invalid)
                => Cardinality(SkippedRows(v[2])) = 1

\* league above series above season above race
DepthRank(kind) ==
    CASE kind = "league" -> 1 [] kind = "series" -> 2 [] kind = "season" -> 3
      [] kind = "race" -> 4

\* C19: a scrape_league run with depth d fetches no page and writes no row
\* of a kind below d: at depth league the series, season and race tables are
\* left as they were, at depth series the season and race tables, at depth
\* season the race table (and with it the drivers and results).  At depth
\* league on an empty store, the league page being read, there is exactly
\* one fetch, of the league URL, one league row and no series row, and the
\* snapshot has leagues_scraped = 1, skipped_cached = 0 and errors = [].
C19_DepthGating ==
    [][(run.op = "none" /\ run'.op = "scrape_league") =>
          /\ \A i \in 1..Len(fetched') :
                 DepthRank(fetched'[i][1]) <= DepthRank(run'.depth)
          /\ DepthRank(run'.depth) < 2 => db'.series = db.series
          /\ DepthRank(run'.depth) < 3 => db'.seasons = db.seasons
          /\ DepthRank(run'.depth) < 4 =>
                 /\ db'.races = db.races
                 /\ db'.drivers = db.drivers
                 /\ db'.race_results = db.race_results
          /\ (run'.depth = "league" /\ db = EmptyDb /\ LeaguePageRead') =>
                 /\ fetched' = <<UrlOf("league", 1)>>
                 /\ DOMAIN db'.leagues = {1}
                 /\ DOMAIN db'.series = {}
                 /\ progress'.leagues_scraped = 1
                 /\ progress'.skipped_cached = 0
                 /\ progress'.errors = << >>
                 /\ run'.raised = ""]_vars

\* the run at depth league on an empty store: one fetch, one league row, one
\* scrape_log row
C19_Witness_LeagueOnly ==
    /\ run.op = "scrape_league" /\ run.depth = "league"
    /\ fetched = <<UrlOf("league", 1)>>
    /\ DOMAIN db.leagues = {1} /\ DOMAIN db.series = {}
    /\ Len(db.scrape_log) = 1
    /\ progress.leagues_scraped = 1 /\ progress.errors = << >>

\* the first n elements of a sequence, all of them when it has fewer
FirstN(seq, n) == [i \in 1..(IF n < Len(seq) THEN n ELSE Len(seq)) |-> seq[i]]

\* the seasons of the run's series page that pass the season_year filter,
\* cut to the first season_limit
LimitedSeasons ==
    FirstN(SelectSeasons(seasons_of([seasons |-> run.seasons], 1), run.filters),
           run.filters.season_limit[1])

\* C20: in a run with season_limit = N that scrapes series 1 at depth season
\* or deeper, the seasons visited are the first N, in discovery order, of
\* the seasons that pass the season_year filter (all of them when there are
\* fewer, none when N is not positive), and on an empty store these are the
\* season rows written.
C20_SeasonLimit ==
    [][(/\ run.op = "none" /\ run'.op = "scrape_league"
        /\ run'.filters.season_limit # NULL
        /\ run'.depth \in {"season", "race"}
        /\ UrlOf("series", 1) \in Range(fetched')
        /\ ~ErrorFor("series", UrlOf("series", 1))')
       => /\ Len(VisitedOf("season")') <= Len(LimitedSeasons')
          /\ VisitedOf("season")' =
                 [i \in 1..Len(LimitedSeasons') |-> <<"season", LimitedSeasons'[i].url>>]
          /\ db = EmptyDb =>
                 DOMAIN db'.seasons =
                     {LimitedSeasons'[i].season_id : i \in 1..Len(LimitedSeasons')}]_vars

\* the visits in depth-first order: each visited series followed by its
\* subtree, each visited season followed by its races (series 1 is the
\* parent of the seasons and season 1 of the races)
RECURSIVE Subtrees(_, _, _)
Subtrees(parents, first, below) ==
    IF parents = << >> THEN << >>
    ELSE <<Head(parents)>> \o (IF Head(parents) = first THEN below ELSE << >>)
             \o Subtrees(Tail(parents), first, below)

DepthFirstOrder ==
    <<<<"league", UrlOf("league", 1)>>>> \o
        Subtrees(VisitedOf("series"), <<"series", UrlOf("series", 1)>>,
                 Subtrees(VisitedOf("season"), <<"season", UrlOf("season", 1)>>,
                          VisitedOf("race")))

\* C21: a scrape_league run visits depth-first in discovery order: the races
\* of a season in the order the season page lists them and all of them
\* before the next season, the seasons of a series in listed order and all
\* descendants of a series before the next series; pages are fetched in the
\* order they are visited.
C21_DepthFirstDiscoveryOrder ==
    run.op = "scrape_league" =>
        /\ visits = DepthFirstOrder
        /\ VisitedOf("series") \in {<< >>, ExpectedSeries}
        /\ VisitedOf("season") \in {<< >>, ExpectedSeasons}
        /\ VisitedOf("race") \in {<< >>, ExpectedRaces}
        /\ fetched = SelectSeq([i \in 1..Len(visits) |-> visits[i][2]],
                               LAMBDA u : u \in Range(fetched))

\* a run to depth race over the whole league: series 1, season 1, its two
\* races, season 2, and only then series 2
C21_Witness_WholeLeague ==
    /\ run.op = "scrape_league"
    /\ [i \in 1..Len(visits) |-> visits[i][2]] =
           <<UrlOf("league", 1), UrlOf("series", 1), UrlOf("season", 1), UrlOf("race", 1),
             UrlOf("race", 2), UrlOf("season", 2), UrlOf("series", 2)>>
    /\ Len(fetched) = 7

\* the pages of a kind the run fetched to the end and stored: fetched, not
\* the page the interrupt arrived at, and without an entry in
\* progress["errors"]
Completed(kind) ==
    {u \in Range(fetched) : u[1] = kind /\ Some(u) # run.interrupt /\ ~ErrorFor(kind, u)}

\* the rows of a table with the URL
StoredWithUrl(kind, u) ==
    CASE kind = "league" -> RowsWithUrl(db.leagues, u)
      [] kind = "series" -> RowsWithUrl(db.series, u)
      [] kind = "season" -> RowsWithUrl(db.seasons, u)
      [] OTHER -> RowsWithUrl(db.races, u)

\* the counter of progress for a kind
ScrapedCount(kind) ==
    CASE kind = "league" -> progress.leagues_scraped
      [] kind = "series" -> progress.series_scraped
      [] kind = "season" -> progress.seasons_scraped
      [] OTHER -> progress.races_scraped

-----------------------------------------------------------------------------
(* SpecBrowser: the life of the shared browser.  Threads fetch pages       *)
(* through one BrowserManager whose launch can fail, and close() is called *)
(* once, at any moment the lock is free.                                    *)

MaxBrowserSeconds == 4

\* what browser.close() and playwright.stop() can do inside close()
CleanupRaises == SUBSET {"browser.close", "playwright.stop"}

\* BrowserManager.close(interrupted) under the lock; raises names the
\* cleanup calls that raise.  try / except (Exception, KeyboardInterrupt):
\* pass / finally: the handle is cleared whether or not the call raised.
close(m, interrupted, raises) ==
    LET called == [m EXCEPT !.closed_with = Some(interrupted)]
    IN  IF called._browser # NULL /\ interrupted
        THEN [called EXCEPT !._browser = NULL, !._playwright = NULL]
        ELSE LET m1 == IF called._browser # NULL
                       THEN [called EXCEPT !._browser = NULL,
                                           !.browser_closes = called.browser_closes + 1]
                       ELSE called
             IN  IF m1._playwright # NULL
                 THEN [m1 EXCEPT !._playwright = NULL, !.stops = m1.stops + 1]
                 ELSE m1

InitBrowser ==
    /\ now = StartTime
    /\ db = EmptyDb
    /\ last_call = NoCall
    /\ GateIdle /\ OrchestratorIdle

\* get_browser() where the launch can fail
get_browser_or_fail(t) ==
    /\ thr[t].pc = "browser"
    /\ get_browser_launching(t, LaunchOutcomes)

\* manager.close(interrupted=...), as Orchestrator.__exit__ calls it
CallClose ==
    /\ mgr.closed_with = NULL
    /\ mgr._lock = NULL
    /\ \E interrupted \in BOOLEAN, raises \in CleanupRaises :
           mgr' = close(mgr, interrupted, raises)
    /\ UNCHANGED <<now, thr, obs>>
    /\ gate_frame

\* the clock moves, as in GateTick
BrowserTick ==
    /\ now < StartTime + MaxBrowserSeconds
    /\ \A t \in Threads : thr[t].pc \notin {"request", "returned", "raised"}
    /\ now' = now + 1
    /\ UNCHANGED <<mgr, thr, obs>>
    /\ gate_frame

NextBrowser ==
    \/ \E t \in Threads : fetch_page(t)
    \/ \E t \in Threads : rate_limit(t)
    \/ \E t \in Threads : rate_limit_wake(t)
    \/ \E t \in Threads : get_browser_or_fail(t)
    \/ \E t \in Threads : request_attempt(t)
    \/ \E t \in Threads : fetch_page_exit(t)
    \/ \E t \in Threads : backoff_wake(t)
    \/ BrowserTick
    \/ CallClose

SpecBrowser == InitBrowser /\ [][NextBrowser]_vars

\* C23: after close() returns, in either mode and whether or not a browser
\* was ever created, the browser and playwright handles are both null; with
\* interrupted=True neither browser.close() nor playwright.stop() is
\* invoked.
C23_CloseClearsWithoutCleanupOnInterrupt ==
    [][(mgr.closed_with = NULL /\ mgr'.closed_with # NULL) =>
          /\ mgr'._browser = NULL /\ mgr'._playwright = NULL
          /\ mgr'.closed_with = Some(TRUE) =>
                 mgr'.browser_closes = mgr.browser_closes /\ mgr'.stops = mgr.stops]_vars

\* C24: from the construction of a BrowserManager to its close(), under any
\* interleaving of get_browser() calls, the browser is launched at most
\* once, every call that returns hands out that one instance, and no fetch,
\* successful, failed or retried, closes the browser or stops Playwright.
C24_OneBrowserUntilClose ==
    mgr.closed_with = NULL =>
        /\ mgr.launches <= 1
        /\ mgr.browser_closes = 0 /\ mgr.stops = 0
        /\ mgr.launches = 1 => mgr._browser = Some(1)
        /\ \A t \in Threads : thr[t].browser # NULL => thr[t].browser = mgr._browser

\* both threads hold the browser of the single launch, one of them retrying
\* after a failed attempt, the other having failed a launch before
C24_Witness_SharedAcrossRetry ==
    /\ mgr.closed_with = NULL /\ mgr.launches = 1
    /\ thr["t1"].browser = Some(1) /\ thr["t2"].browser = Some(1)
    /\ thr["t1"].pc = "request" /\ thr["t1"].attempt = 1
    /\ thr["t2"].pc = "request"

\* C25: upsert_race(schedule_id, ...) returns the race_id of the row whose
\* schedule_id is the argument, when the row is inserted and when it is
\* updated, whatever was inserted on the connection before.
C25_UpsertRaceReturnsRaceId ==
    (last_call.op = "upsert" /\ last_call.kind = "race" /\ last_call.ok) =>
        last_call.ret \in RaceRows(db, last_call.key)

\* every child row of the store references an existing parent row
ReferentialIntegrity(d) ==
    /\ \A k \in DOMAIN d.series : d.series[k].league_id \in DOMAIN d.leagues
    /\ \A k \in DOMAIN d.seasons : d.seasons[k].series_id \in DOMAIN d.series
    /\ \A k \in DOMAIN d.races : d.races[k].season_id \in DOMAIN d.seasons
    /\ \A k \in DOMAIN d.teams : d.teams[k].league_id \in DOMAIN d.leagues
    /\ \A k \in DOMAIN d.drivers :
           /\ d.drivers[k].league_id \in DOMAIN d.leagues
           /\ d.drivers[k].team_id # NULL => d.drivers[k].team_id[1] \in DOMAIN d.teams
    /\ \A k \in DOMAIN d.race_results :
           /\ d.race_results[k].race_id \in DOMAIN d.races
           /\ d.race_results[k].driver_id \in DOMAIN d.drivers

\* the upsert of the kind, with parent key 1 everywhere, names a parent the
\* store does not hold
NamesMissingParent(d, kind, data) ==
    CASE kind = "series" -> 1 \notin DOMAIN d.leagues
      [] kind = "season" -> 1 \notin DOMAIN d.series
      [] kind = "race" -> 1 \notin DOMAIN d.seasons
      [] kind = "team" -> 1 \notin DOMAIN d.leagues
      [] kind = "driver" ->
             \/ 1 \notin DOMAIN d.leagues
             \/ (Get(data, "team_id") # NULL /\ Get(data, "team_id")[1] \notin DOMAIN d.teams)
      [] kind = "race_result" -> 1 \notin DOMAIN d.races \/ 1 \notin DOMAIN d.drivers
      [] OTHER -> FALSE

AskedShouldScrape == last_call.op = "should_scrape"

\* the row should_scrape looks up, if the store holds it
AskedRows ==
    IF last_call.kind = "race" THEN {db.races[k] : k \in RaceRows(db, 1)}
    ELSE LET tbl == table_map(db, last_call.kind) IN {tbl[k] : k \in DOMAIN tbl \cap {1}}

\* the row was scraped within validity_hours of the call
WithinValidity(row) ==
    \/ last_call.data.validity_hours = NULL
    \/ /\ row.scraped_at # NULL /\ row.scraped_at[1].fmt = "iso"
       /\ last_call.at - row.scraped_at[1].t
              <= last_call.data.validity_hours[1] * SecondsPerHour

\* C27: should_scrape(kind, id, validity_hours) returns false only when the
\* row exists, was scraped within the validity, and for a race or season row
\* has a terminal status; for a race or season row whose status is in
\* progress or unknown (no stored row carries a status) it returns true with
\* the reason status_needs_refresh, for every validity_hours, None included.
C27_ShouldScrapeStatusAware ==
    AskedShouldScrape =>
        /\ last_call.ok
        /\ last_call.ret[1] = FALSE =>
               /\ \E row \in AskedRows : WithinValidity(row)
               /\ last_call.kind \notin {"race", "season"}
        /\ (last_call.kind \in {"race", "season"} /\ AskedRows # {}) =>
               last_call.ret = <<TRUE, "status_needs_refresh">>

\* the pages the run fetched that lack the markers of their kind
Unmarked == run.drifted \cup run.blank

\* C28: for every kind of page, extract(url) checks the markers of the kind
\* between the fetch and the return: a fetched page that lacks them never
\* yields data to the caller and always surfaces as a failure, so the run
\* counts none of them as scraped.
C28_UnmarkedPageNeverReturned ==
    run.op = "scrape_league" =>
        /\ \A url \in Unmarked : ErrorFor(url[1], url) /\ LoggedFailed(url[1], url)
        /\ \A kind \in Depths :
               ScrapedCount(kind) <= Cardinality({u \in Range(fetched) \ Unmarked : u[1] = kind})

-----------------------------------------------------------------------------
(* SpecExtract: the extractors as functions of the URL and of the page     *)
(* fetch_page returns.                                                      *)

\* EXPECTED_SCHEMAS: the patterns validate_javascript_data searches for and
\* the fields validate_extracted_data requires
EXPECTED_SCHEMAS ==
    [league_series |->
         [javascript_patterns |-> {"series.push({", "id:", "name:"},
          required_fields |-> {"id", "name"}],
     series_seasons |->
         [javascript_patterns |-> {"seasons = [", "{id:", "n:", "scrt:", "ns:", "nr:"},
          required_fields |-> {"id", "n", "scrt", "ns", "nr"}]]

\* a league page: whether the document is empty, the patterns its text
\* matches, the description block if there is one, and the series its script
\* pushes.  A name is always found ("Unknown League" at worst).
LeaguePages ==
    [empty : BOOLEAN,
     patterns : SUBSET EXPECTED_SCHEMAS.league_series.javascript_patterns,
     description : {NULL, Some("a")},
     series : {<< >>, <<1, 2>>}]

LeagueUrls == {UrlOf("league", 1), UrlOf("league", 2), UrlOf("series", 1)}

\* SchemaValidator.validate_javascript_data(entity_type, str(soup))
validate_javascript_data(entity_type, page) ==
    IF page.empty THEN "SchemaChangeDetected"
    ELSE IF EXPECTED_SCHEMAS[entity_type].javascript_patterns \subseteq page.patterns
    THEN "ok" ELSE "SchemaChangeDetected"

\* SchemaValidator.validate_extracted_data(entity_type, data): a required
\* field is missing when it is no key of data or its value is None
validate_extracted_data(entity_type, data) ==
    LET missing_fields == {f \in EXPECTED_SCHEMAS[entity_type].required_fields :
                              f \notin DOMAIN data \/ data[f] = NULL}
    IN  IF missing_fields # {} THEN "SchemaChangeDetected" ELSE "ok"

\* LeagueExtractor._extract_metadata(soup, league_id, url)
league_metadata(page, league_id, url) ==
    [league_id |-> Some(league_id), url |-> Some(url), name |-> Some("League")]
        @@ (IF page.description # NULL THEN [description |-> page.description]
            ELSE [f \in {} |-> NULL])

\* LeagueExtractor.extract(url), fetch_page returning the page
league_extract(url, page) ==
    IF url[1] # "league" THEN [ok |-> FALSE, err |-> "ValueError", ret |-> NULL]
    ELSE LET league_id == url[2]
             metadata == league_metadata(page, league_id, url)
         IN  IF validate_javascript_data("league_series", page) # "ok"
             THEN [ok |-> FALSE, err |-> "SchemaChangeDetected", ret |-> NULL]
             ELSE IF validate_extracted_data("league_series", metadata) # "ok"
             THEN [ok |-> FALSE, err |-> "SchemaChangeDetected", ret |-> NULL]
             ELSE [ok |-> TRUE, err |-> "",
                   ret |-> Some([metadata |-> metadata,
                                 child_urls |-> [series |-> page.series]])]

InitExtract ==
    /\ now = StartTime
    /\ db = EmptyDb
    /\ last_call = NoCall
    /\ GateIdle /\ OrchestratorIdle

\* league_extractor.extract(url) on a fetched page
CallLeagueExtract ==
    /\ last_call = NoCall
    /\ \E url \in LeagueUrls, page \in LeaguePages :
        LET r == league_extract(url, page)
        IN  last_call' = [op |-> "league_extract", url |-> url, page |-> page,
                          ok |-> r.ok, err |-> r.err, ret |-> r.ret]
    /\ UNCHANGED <<db, now, gate_vars, orch_vars>>

MaxRows == 3

\* the first cell of a schedule row: a bare number, "Race N", a zero, or
\* text without a race number
FirstCells == {"1", "Race 2", "0", "Notes"}

\* first_cell_text.isdigit() -> int(text); else re.search(r"Race\s+(\d+)")
race_number_of(first_cell_text) ==
    CASE first_cell_text = "1" -> 1
      [] first_cell_text = "Race 2" -> 2
      [] OTHER -> 0

\* the rows of the schedule table that carry one schedule_id link
ScheduleRows == [first : FirstCells, schedule_id : {1, 2}]

RECURSIVE ExtractRows(_, _, _)
\* the loop over the rows: an id already seen is skipped, the id is added to
\* seen_schedule_ids, and then a row whose race_number is 0 is skipped
ExtractRows(rows, seen_schedule_ids, races) ==
    IF rows = << >> THEN races
    ELSE LET row == Head(rows)
             race_number == race_number_of(row.first)
         IN  IF row.schedule_id \in seen_schedule_ids
             THEN ExtractRows(Tail(rows), seen_schedule_ids, races)
             ELSE IF race_number = 0
             THEN ExtractRows(Tail(rows), seen_schedule_ids \cup {row.schedule_id}, races)
             ELSE ExtractRows(Tail(rows), seen_schedule_ids \cup {row.schedule_id},
                              Append(races, [schedule_id |-> row.schedule_id,
                                             race_number |-> race_number]))

\* SeasonExtractor._extract_races(soup)
_extract_races(rows) == ExtractRows(rows, {}, << >>)

\* the tables of up to MaxRows rows
ScheduleTables == UNION {[1..n -> ScheduleRows] : n \in 0..MaxRows}

\* season_extractor._extract_races on a fetched schedule table
CallExtractRaces ==
    /\ last_call = NoCall
    /\ \E rows \in ScheduleTables :
        last_call' = [op |-> "_extract_races", rows |-> rows, ok |-> TRUE, err |-> "",
                      ret |-> _extract_races(rows)]
    /\ UNCHANGED <<db, now, gate_vars, orch_vars>>

-----------------------------------------------------------------------------
(* Orchestrator._parse_driver_name over strings of characters               *)

MaxNameLen == 4

\* the characters of a driver name: letters, the space and the comma
NameChars == {"a", "b", " ", ","}

\* full_name: None or a string of up to MaxNameLen characters
FullNames == {NULL} \cup {Some(s) : s \in UNION {[1..n -> NameChars] : n \in 0..MaxNameLen}}

RECURSIVE lstrip(_)
\* str.lstrip()
lstrip(s) == IF s # << >> /\ Head(s) = " " THEN lstrip(Tail(s)) ELSE s

RECURSIVE rstrip(_)
\* str.rstrip()
rstrip(s) == IF s # << >> /\ s[Len(s)] = " " THEN rstrip(SubSeq(s, 1, Len(s) - 1)) ELSE s

\* str.strip()
strip(s) == rstrip(lstrip(s))

\* the comma at which split(",", 1) cuts
LastComma(s) == CHOOSE i \in 1..Len(s) : s[i] = "," /\ \A j \in (i + 1)..Len(s) : s[j] # ","

\* the comma at which split(",", 1) cuts: the first one
FirstComma(s) == CHOOSE i \in 1..Len(s) : s[i] = "," /\ \A j \in 1..(i - 1) : s[j] # ","

RECURSIVE split(_)
\* str.split(): the whitespace-separated tokens
split(s) ==
    LET t == lstrip(s)
    IN  IF t = << >> THEN << >>
        ELSE LET n == IF \E i \in 1..Len(t) : t[i] = " "
                      THEN (CHOOSE i \in 1..Len(t) : t[i] = " " /\ \A j \in 1..(i - 1) : t[j] # " ") - 1
                      ELSE Len(t)
             IN  <<SubSeq(t, 1, n)>> \o split(SubSeq(t, n + 1, Len(t)))

RECURSIVE join(_)
\* " ".join(parts)
join(parts) ==
    IF parts = << >> THEN << >>
    ELSE IF Len(parts) = 1 THEN parts[1]
    ELSE parts[1] \o <<" ">> \o join(Tail(parts))

\* Orchestrator._parse_driver_name(full_name) -> (first_name, last_name)
parse_driver_name(full_name) ==
    IF full_name = NULL \/ full_name[1] = << >> \/ strip(full_name[1]) = << >>
    THEN <<NULL, NULL>>
    ELSE LET name == strip(full_name[1])
         IN  IF \E i \in 1..Len(name) : name[i] = ","
             THEN LET c == FirstComma(name)
                      last_name == strip(SubSeq(name, 1, c - 1))
                      first_name == strip(SubSeq(name, c + 1, Len(name)))
                  IN  IF first_name = << >>
                      THEN IF last_name # << >> THEN <<NULL, Some(last_name)>> ELSE <<NULL, NULL>>
                      ELSE IF last_name = << >> THEN <<Some(first_name), NULL>>
                      ELSE <<Some(first_name), Some(last_name)>>
             ELSE LET parts == split(name)
                  IN  IF Len(parts) = 0 THEN <<NULL, NULL>>
                      ELSE IF Len(parts) = 1 THEN <<Some(parts[1]), NULL>>
                      ELSE <<Some(parts[1]), Some(join(Tail(parts)))>>

\* orchestrator._parse_driver_name(full_name)
CallParseDriverName ==
    /\ last_call = NoCall
    /\ \E full_name \in FullNames :
        last_call' = [op |-> "_parse_driver_name", full_name |-> full_name,
                      ok |-> TRUE, err |-> "", ret |-> parse_driver_name(full_name)]
    /\ UNCHANGED <<db, now, gate_vars, orch_vars>>

NextExtract ==
    \/ CallLeagueExtract
    \/ CallExtractRaces
    \/ CallParseDriverName

SpecExtract == InitExtract /\ [][NextExtract]_vars

\* C29: LeagueExtractor.extract on a league page that contains every league
\* marker pattern returns metadata with league_id (parsed from the URL),
\* name and url, together with the series child list: the required-fields
\* check on its own metadata passes and SchemaChangeDetected is not raised.
C29_LeagueExtractReturnsMetadata ==
    (/\ last_call.op = "league_extract"
     /\ last_call.url[1] = "league"
     /\ ~last_call.page.empty
     /\ EXPECTED_SCHEMAS.league_series.javascript_patterns \subseteq last_call.page.patterns) =>
        /\ last_call.ok
        /\ last_call.ret[1].metadata.league_id = Some(last_call.url[2])
        /\ last_call.ret[1].metadata.url = Some(last_call.url)
        /\ last_call.ret[1].metadata.name # NULL
        /\ last_call.ret[1].child_urls.series = last_call.page.series

\* the schedule ids of the rows with a parseable race number
NumberedIds(rows) ==
    {rows[i].schedule_id : i \in {j \in 1..Len(rows) : race_number_of(rows[j].first) # 0}}

\* C30: the race list a season page yields holds each schedule id at most
\* once and holds every schedule id that occurs in at least one row with a
\* parseable race number (a bare integer or "Race N"), whatever the order of
\* the rows; rows without a parseable race number contribute no entry.
C30_RaceListCompleteAndUnique ==
    last_call.op = "_extract_races" =>
        LET races == last_call.ret
            ids == {races[i].schedule_id : i \in 1..Len(races)}
        IN  /\ Cardinality(ids) = Len(races)
            /\ ids = NumberedIds(last_call.rows)
            /\ \A i \in 1..Len(races) : races[i].race_number # 0

\* the string without the spaces before its first and after its last
\* character that is no space
Trimmed(s) ==
    LET inked == {i \in 1..Len(s) : s[i] # " "}
    IN  IF inked = {} THEN << >>
        ELSE SubSeq(s, CHOOSE i \in inked : \A j \in inked : i <= j,
                       CHOOSE i \in inked : \A j \in inked : j <= i)

\* the k-th maximal run of characters that are no spaces
Word(s, k) ==
    LET starts == {i \in 1..Len(s) : s[i] # " " /\ (i = 1 \/ s[i - 1] = " ")}
        ends == {i \in 1..Len(s) : s[i] # " " /\ (i = Len(s) \/ s[i + 1] = " ")}
    IN  SubSeq(s, CHOOSE i \in starts : Cardinality({j \in starts : j < i}) = k - 1,
                  CHOOSE i \in ends : Cardinality({j \in ends : j < i}) = k - 1)

\* the number of such runs
WordCount(s) == Cardinality({i \in 1..Len(s) : s[i] # " " /\ (i = 1 \/ s[i - 1] = " ")})

RECURSIVE WordsFrom(_, _)
\* the runs from the k-th on, one space between two of them
WordsFrom(s, k) ==
    IF k > WordCount(s) THEN << >>
    ELSE IF k = WordCount(s) THEN Word(s, k)
    ELSE Word(s, k) \o <<" ">> \o WordsFrom(s, k + 1)

\* an empty string is returned as None
NoneIfEmpty(s) == IF s = << >> THEN NULL ELSE Some(s)

-----------------------------------------------------------------------------
\* C32: in every state reachable by scrape operations with force = false, a
\* race row whose completion flag is true is never afterwards written with
\* the flag false or with any stored attribute changed, also when a later
\* season page lists the race without a results link.
C32_CompleteRaceNeverRewritten ==
    [][~run'.force =>
          \A k \in DOMAIN db.races :
              db.races[k].is_complete = Some(TRUE) =>
                  k \in DOMAIN db'.races /\ db'.races[k] = db.races[k]]_vars

-----------------------------------------------------------------------------
\* the page of the row was fetched, parsed and persisted at least once
OwnPageScraped(kind, url) ==
    \E i \in 1..Len(db.scrape_log) :
        /\ db.scrape_log[i].entity_type = kind
        /\ db.scrape_log[i].entity_url = url
        /\ db.scrape_log[i].status = "success"

\* C33: once the last-scraped of a series or season row has been set by a
\* successful fetch of its own page, no later parent-discovery write resets
\* it to the epoch sentinel: the sentinel is stored only on rows whose own
\* page has never been fetched successfully.
C33_SentinelOnlyOnUnfetchedRows ==
    /\ \A k \in DOMAIN db.series :
           db.series[k].scraped_at = Some(EpochSentinel) =>
               ~OwnPageScraped("series", db.series[k].url[1])
    /\ \A k \in DOMAIN db.seasons :
           db.seasons[k].scraped_at = Some(EpochSentinel) =>
               ~OwnPageScraped("season", db.seasons[k].url[1])

-----------------------------------------------------------------------------
\* C34: a race is left marked complete only when the loop over its results
\* has finished: when scrape_race is interrupted after the race row is
\* persisted and before every result row of the page has been processed, the
\* stored race is not complete, so that a later run with force = false
\* fetches it again.
C34_CompleteOnlyAfterResultsLoop ==
    \A schedule_id \in {1, 2} :
        (/\ run.raised = "KeyboardInterrupt"
         /\ run.interrupt = Some(InResults(UrlOf("race", schedule_id)))) =>
            ~is_race_complete(db, schedule_id)

-----------------------------------------------------------------------------
\* the scrape_log rows the call appended for the URL of one of its visits
AppendedFor(before, after, visit) ==
    {i \in (Len(before.scrape_log) + 1)..Len(after.scrape_log) :
        /\ after.scrape_log[i].entity_type = visit[1]
        /\ after.scrape_log[i].entity_url = visit[2]}

\* C35: each invocation of scrape_league, scrape_series, scrape_season or
\* scrape_race appends at most one scrape_log row for its own URL: never a
\* 'success' row and a 'failed' row for the same visit, also when the store
\* write of a discovered child fails after the success was logged.
C35_OneLogRowPerVisit ==
    [][run'.n = run.n + 1 =>
          \A v \in Range(visits') :
              Cardinality(AppendedFor(db, db', v))
                  <= Cardinality({j \in 1..Len(visits') : visits'[j] = v})]_vars

-----------------------------------------------------------------------------
\* the profile page of the driver was fetched and stored at least once
ProfileScraped(d, driver_id) ==
    \E i \in 1..Len(d.scrape_log) :
        /\ d.scrape_log[i].entity_type = "driver"
        /\ d.scrape_log[i].entity_url = UrlOf("driver", driver_id)
        /\ d.scrape_log[i].status = "success"

\* C36: a driver row created lazily from a race result, whose profile page
\* has never been fetched, is not reported as cached by refresh_driver_data
\* with force = false: the profile page is fetched on the first refresh, for
\* every finite cache_max_age_days.
C36_LazyDriverFetchedOnFirstRefresh ==
    [][(/\ run'.n = run.n + 1
        /\ run'.op = "refresh_driver_data" /\ ~run'.force
        /\ run'.cache_max_age_days # NULL
        /\ 1 \in DOMAIN db.drivers
        /\ ~ProfileScraped(db, 1)) =>
           /\ UrlOf("driver", 1) \in Range(fetched')
           /\ progress'.skipped_cached = progress.skipped_cached]_vars

\* the attributes of a driver row that two writers fill: the names come from
\* race results, the ratings from the profile page
MergedDriverFields == {"first_name", "last_name", "irating", "safety_rating", "license_class"}

\* C37: for any sequence of scrape_race and refresh_driver_data operations
\* on the same driver, a non-null first_name, last_name, irating,
\* safety_rating or license_class of the driver row is never replaced by null.
C37_DriverFieldsNeverNulled ==
    [][\A k \in DOMAIN db.drivers : \A f \in MergedDriverFields :
           db.drivers[k][f] # NULL =>
               k \in DOMAIN db'.drivers /\ db'.drivers[k][f] # NULL]_vars

-----------------------------------------------------------------------------
\* the scrape_log rows of one kind and status that a call appended
AppendedRows(before, after, kind, status) ==
    {i \in (Len(before.scrape_log) + 1)..Len(after.scrape_log) :
        /\ after.scrape_log[i].entity_type = kind
        /\ after.scrape_log[i].status = status}

\* the rows of one status that a call appended, whatever their kind
AppendedWithStatus(before, after, status) ==
    {i \in (Len(before.scrape_log) + 1)..Len(after.scrape_log) :
        after.scrape_log[i].status = status}

\* C38: when scrape_league returns on an orchestrator whose progress was
\* reset before the run, each counter K_scraped (K in league, series, season,
\* race) equals the number of 'success' scrape_log rows of kind K appended
\* during the run, and the length of progress.errors equals the number of
\* 'failed' rows appended during the run.
C38_ProgressMatchesScrapeLog ==
    [][(/\ run'.n = run.n + 1
        /\ run'.op \in {"scrape_league", "main"}
        /\ run'.raised = "") =>
           /\ progress'.leagues_scraped = Cardinality(AppendedRows(db, db', "league", "success"))
           /\ progress'.series_scraped = Cardinality(AppendedRows(db, db', "series", "success"))
           /\ progress'.seasons_scraped = Cardinality(AppendedRows(db, db', "season", "success"))
           /\ progress'.races_scraped = Cardinality(AppendedRows(db, db', "race", "success"))
           /\ Len(progress'.errors) = Cardinality(AppendedWithStatus(db, db', "failed"))]_vars

\* a run to depth race that returned with pages of every kind scraped and
\* two failures recorded
C38_Witness_MixedRun ==
    /\ run.op = "scrape_league" /\ run.raised = "" /\ run.depth = "race"
    /\ progress.leagues_scraped = 1 /\ progress.series_scraped = 1
    /\ progress.seasons_scraped = 1 /\ progress.races_scraped = 1
    /\ Len(progress.errors) = 2
    /\ Cardinality(FailedRows) = 2

====
